---- MODULE Spec2Model ----
(***************************************************************************)
(* Pattern store of the local pattern learning engine: the SQLite tables   *)
(* written by PatternStorage, LearningStorage and LocalStore, and the      *)
(* operations that write them.                                             *)
(*                                                                         *)
(* Confidence values are REAL numbers in the program; here they are        *)
(* integers counting hundredths (0.5 is 50, 1.0 is 100).                   *)
(* Texts are sequences of one-character strings.                           *)
(***************************************************************************)
EXTENDS Integers, Sequences, FiniteSets, TLC

\* ------------------------------------------------------------------ bounds
MaxPatterns == 2
MaxUsage == 1
MaxEvents == 1
MaxUpdates == 2
MaxInFlight == 1
MaxWork == 3

\* ---------------------------------------------------------- basic values
\* SQL NULL in a numeric column, and a JS number that is undefined
NULL == 0 - 999

\* SQL NULL in a TEXT column / JS undefined where a string is expected
NullText == <<"\\0">>

Min(a, b) == IF a <= b THEN a ELSE b

Max(a, b) == IF a >= b THEN a ELSE b

\* the scalar multi-argument MIN() and MAX() of SQLite: NULL if any argument is
SqlMin(a, b) == IF a = NULL \/ b = NULL THEN NULL ELSE Min(a, b)

SqlMax(a, b) == IF a = NULL \/ b = NULL THEN NULL ELSE Max(a, b)

SqlAdd(a, b) == IF a = NULL \/ b = NULL THEN NULL ELSE a + b

SqlSub(a, b) == IF a = NULL \/ b = NULL THEN NULL ELSE a - b

\* ------------------------------------------------------------------ texts
IsSpace(c) == c = " "

RECURSIVE TrimStart(_)
TrimStart(s) == IF s # <<>> /\ IsSpace(s[1]) THEN TrimStart(Tail(s)) ELSE s

RECURSIVE TrimEnd(_)
TrimEnd(s) ==
    IF s # <<>> /\ IsSpace(s[Len(s)]) THEN TrimEnd(SubSeq(s, 1, Len(s) - 1)) ELSE s

\* String.prototype.trim
Trim(s) == TrimEnd(TrimStart(s))

\* SQLite LIKE folds the case of ASCII letters
Lower(c) ==
    CASE c = "A" -> "a" [] c = "B" -> "b" [] c = "C" -> "c" [] c = "F" -> "f"
      [] c = "K" -> "k" [] c = "T" -> "t" [] OTHER -> c

\* SQLite LIKE: % matches any run of characters, _ any one character
RECURSIVE Like(_, _)
Like(text, pat) ==
    IF pat = <<>> THEN text = <<>>
    ELSE IF pat[1] = "%"
         THEN \E k \in 0..Len(text) : Like(SubSeq(text, k + 1, Len(text)), Tail(pat))
         ELSE /\ text # <<>>
              /\ pat[1] = "_" \/ Lower(pat[1]) = Lower(text[1])
              /\ Like(Tail(text), Tail(pat))

\* String.prototype.includes: s occurs in text, character for character
Contains(text, s) ==
    \E k \in 0..(Len(text) - Len(s)) : SubSeq(text, k + 1, k + Len(s)) = s

\* ------------------------------------------------------------ JSON blobs
\* metadata objects of the callers
MetaUndefined == "undefined"

MetaEmpty == "{}"

MetaTest == "{taskType:test}"

\* metadata whose key and value can occur in a task text: {k: 'b'}
MetaKB == "{k:b}"

\* metadata with the key the matcher treats as a styling tag:
\* {styling: 'css', k: 'x'}
MetaStyling == "{styling:css,k:x}"

\* the metadata the learning pipeline builds for an outcome:
\* {outcome: {status: outcome}, ...}
MetaOutcome(outcome) ==
    CASE outcome = "success" -> "{outcome:success}"
      [] outcome = "failure" -> "{outcome:failure}"
      [] OTHER -> "{outcome:partial}"

\* the metadata validateStructure builds for an operation:
\* {taskType: operation, toolUsage: []}
MetaOperation(operation) ==
    CASE operation = "create" -> "{taskType:create,toolUsage:[]}"
      [] operation = "modify" -> "{taskType:modify,toolUsage:[]}"
      [] operation = "delete" -> "{taskType:delete,toolUsage:[]}"
      [] OTHER -> "{taskType:read,toolUsage:[]}"

\* JSON.stringify, and the binding of its result to a TEXT parameter
JsonStringify(m) ==
    CASE m = MetaUndefined -> "NULL"
      [] m = MetaOperation("create") -> "'{taskType:create,toolUsage:[]}'"
      [] m = MetaOperation("modify") -> "'{taskType:modify,toolUsage:[]}'"
      [] m = MetaOperation("delete") -> "'{taskType:delete,toolUsage:[]}'"
      [] m = MetaOperation("read") -> "'{taskType:read,toolUsage:[]}'"
      [] m = MetaOutcome("success") -> "'{outcome:success}'"
      [] m = MetaOutcome("failure") -> "'{outcome:failure}'"
      [] m = MetaOutcome("partial") -> "'{outcome:partial}'"
      [] m = MetaEmpty -> "'{}'"
      [] m = MetaKB -> "'{k:b}'"
      [] m = MetaStyling -> "'{styling:css,k:x}'"
      [] OTHER -> "'{taskType:test}'"

\* JSON.parse on a column value that is not NULL
JsonParse(s) ==
    CASE s = "'{}'" -> MetaEmpty
      [] s = "'{taskType:create,toolUsage:[]}'" -> MetaOperation("create")
      [] s = "'{taskType:modify,toolUsage:[]}'" -> MetaOperation("modify")
      [] s = "'{taskType:delete,toolUsage:[]}'" -> MetaOperation("delete")
      [] s = "'{taskType:read,toolUsage:[]}'" -> MetaOperation("read")
      [] s = "'{outcome:success}'" -> MetaOutcome("success")
      [] s = "'{outcome:failure}'" -> MetaOutcome("failure")
      [] s = "'{outcome:partial}'" -> MetaOutcome("partial")
      [] s = "'{k:b}'" -> MetaKB
      [] s = "'{styling:css,k:x}'" -> MetaStyling
      [] OTHER -> MetaTest

\* ------------------------------------------------------------------ state
VARIABLES
    patterns,            \* table patterns, in rowid order
    learning_patterns,   \* table learning_patterns
    pattern_usage,       \* table pattern_usage
    pattern_evolution,   \* table pattern_evolution
    pattern_validation,  \* table pattern_validation
    clock,               \* Date.now()
    updates,             \* number of updateConfidence calls made
    learn,               \* LearningStorage.store call in flight
    track,               \* LocalStore.validateAndTrackPattern call in flight
    chunk,               \* LogPatternExtractor.processChunk call in flight
    processingTasks,     \* PatternService.processingTasks
    taskCalls,           \* the processTaskLogs calls made, with their position
    files,               \* the keys of ProjectContext.structure.files
    fileChangesHistory,  \* ProjectContext.fileChangesHistory
    ret                  \* outcome of the call that completed last

vars == <<patterns, learning_patterns, pattern_usage, pattern_evolution,
          pattern_validation, clock, updates, learn, track, chunk,
          processingTasks, taskCalls, files, fileChangesHistory, ret>>

\* the state of the PatternService
service == <<processingTasks, taskCalls>>

\* the state of the ProjectContext
project == <<files, fileChangesHistory>>

tables == <<patterns, learning_patterns, pattern_usage, pattern_evolution,
            pattern_validation>>

calls == <<learn, track, chunk>>

\* INTEGER PRIMARY KEY: the rowid of a new row is one more than the largest
RECURSIVE MaxId(_)
MaxId(table) ==
    IF table = <<>> THEN 0 ELSE Max(table[Len(table)].id, MaxId(SubSeq(table, 1, Len(table) - 1)))

\* a rowid that repeats the largest one once the table has a row
StaleRowid(table) == Max(MaxId(table), 1)

LastInsertRowid(table) == MaxId(table) + 1

PatternIds == {patterns[i].id : i \in 1..Len(patterns)}

\* foreign keys left unenforced
ForeignKeyOff(id) == TRUE

\* FOREIGN KEY(pattern_id) REFERENCES patterns(id): a NULL key is not checked
ForeignKeyOk(id) == id = NULL \/ id \in PatternIds

RowOf(id) == CHOOSE i \in 1..Len(patterns) : patterns[i].id = id

Result(op, value, err) == [op |-> op, value |-> value, err |-> err]

NoError == "none"

StorageError == "StorageError"

ForeignKeyError == "SqliteError: FOREIGN KEY constraint failed"

TypeError == "TypeError"

Idle == [pc |-> "idle"]

\* the number of multi-statement calls that are suspended at an await
InFlight ==
    (IF learn.pc = "idle" THEN 0 ELSE 1) + (IF track.pc = "idle" THEN 0 ELSE 1)
        + (IF chunk.pc = "idle" THEN 0 ELSE 1)

Init ==
    /\ patterns = <<>>
    /\ learning_patterns = <<>>
    /\ pattern_usage = <<>>
    /\ pattern_evolution = <<>>
    /\ pattern_validation = <<>>
    /\ clock = 1
    /\ updates = 0
    /\ learn = Idle
    /\ track = Idle
    /\ chunk = Idle
    /\ processingTasks = {}
    /\ taskCalls = <<>>
    /\ files = {}
    /\ fileChangesHistory = <<>>
    /\ ret = Result("init", NULL, NoError)

\* ------------------------------------------------------------------ inputs
TextFix == <<"f", "i", "x">>

TextAdd == <<" ", "a", "d", "d">>

CtxJest == <<"j">>

CtxReact == <<"r">>

PatternFix ==
    [pattern |-> TextFix, context |-> CtxJest, timestamp |-> 10,
     metadata |-> MetaTest, confidence |-> 50]

\* OperationPattern objects handed to storePattern
PatternInputs ==
    { PatternFix,
      [pattern |-> TextFix, context |-> CtxJest, timestamp |-> 20,
       metadata |-> MetaEmpty, confidence |-> 35],
      [pattern |-> TextAdd, context |-> CtxReact, timestamp |-> 20,
       metadata |-> MetaUndefined, confidence |-> NULL],
      [pattern |-> TextAdd, context |-> CtxReact, timestamp |-> 10,
       metadata |-> MetaTest, confidence |-> 100] }

\* ConfidenceUpdateOptions objects; a field that is absent is NULL
Options(si, fd, lo, hi, fork) ==
    [successIncrease |-> si, failureDecrease |-> fd, minConfidence |-> lo,
     maxConfidence |-> hi, forkThreshold |-> fork]

NoOptions == Options(NULL, NULL, NULL, NULL, NULL)

OptionInputs ==
    { NoOptions,
      Options(30, 50, NULL, NULL, NULL),
      Options(NULL, 10, 20, 70, NULL) }

Outcomes == {"success", "failure", "partial"}

\* ------------------------------------------------------- PatternStorage
\* a row whose text is trimmed before it is written
PatternRowTrimmed(p) ==
    [id |-> MaxId(patterns) + 1,
     pattern |-> Trim(p.pattern),
     context |-> p.context,
     timestamp |-> p.timestamp,
     metadata |-> JsonStringify(p.metadata),
     confidence |-> p.confidence]

\* the row INSERT INTO patterns writes for an OperationPattern
PatternRow(p) ==
    [id |-> LastInsertRowid(patterns),
     pattern |-> p.pattern,
     context |-> p.context,
     timestamp |-> p.timestamp,
     metadata |-> JsonStringify(p.metadata),
     confidence |-> p.confidence]

\* PatternStorage.store, reached through LocalStore.storePattern
StorePattern(p) ==
    /\ Len(patterns) < MaxPatterns
    /\ \E ok \in BOOLEAN :
         IF ok
         THEN /\ patterns' = Append(patterns, PatternRow(p))
              /\ ret' = Result("storePattern", LastInsertRowid(patterns), NoError)
         ELSE /\ patterns' = patterns
              /\ ret' = Result("storePattern", NULL, StorageError)
    /\ UNCHANGED <<service, project, learning_patterns, pattern_usage, pattern_evolution,
                   pattern_validation, clock, updates, calls>>

\* an option of the call, or its default when the caller left it out
Default(v, d) == IF v = NULL THEN d ELSE v

\* a CASE that adds or subtracts the delta and forgets the MIN and MAX
ConfidenceCaseUnclamped(confidence, p1, p2, p3, p4, p5) ==
    IF p1 # 0 THEN SqlAdd(confidence, p2) ELSE SqlSub(confidence, p4)

\* SET confidence = CASE WHEN ?1 THEN MIN(confidence + ?2, ?3)
\*                       ELSE MAX(confidence - ?4, ?5) END
ConfidenceCase(confidence, p1, p2, p3, p4, p5) ==
    IF p1 # 0
    THEN SqlMin(SqlAdd(confidence, p2), p3)
    ELSE SqlMax(SqlSub(confidence, p4), p5)

\* the value the UPDATE of updateConfidence computes from the stored one
UpdatedConfidence(confidence, success, options) ==
    LET successIncrease == Default(options.successIncrease, 10)
        failureDecrease == Default(options.failureDecrease, 20)
        minConfidence == Default(options.minConfidence, 0)
        maxConfidence == Default(options.maxConfidence, 100)
    IN  ConfidenceCase(confidence,
                       IF success THEN 1 ELSE 0,
                       IF success THEN successIncrease ELSE failureDecrease,
                       IF success THEN maxConfidence ELSE minConfidence,
                       IF success THEN successIncrease ELSE failureDecrease,
                       IF success THEN maxConfidence ELSE minConfidence)

\* an UPDATE that also sets the timestamp of the row
SetConfidenceAndTimestamp(row, c) == [row EXCEPT !.confidence = c, !.timestamp = 0]

\* UPDATE patterns SET confidence = ... : the row after the update
SetConfidence(row, c) == [row EXCEPT !.confidence = c]

\* PatternStorage.updateConfidence, reached through
\* LocalStore.updatePatternConfidence
UpdateConfidence(patternId, success, options) ==
    /\ updates < MaxUpdates
    /\ updates' = updates + 1
    /\ \E ok \in BOOLEAN :
            IF ~ok
            THEN /\ patterns' = patterns
                 /\ ret' = Result("updateConfidence", NULL, StorageError)
            ELSE IF patternId \notin PatternIds
            THEN \* no row is updated, stmt.get returns undefined
                 /\ patterns' = patterns
                 /\ ret' = Result("updateConfidence", NULL, TypeError)
            ELSE LET c == UpdatedConfidence(patterns[RowOf(patternId)].confidence,
                                            success, options)
                 IN /\ patterns' = [patterns EXCEPT ![RowOf(patternId)] = SetConfidence(@, c)]
                    /\ ret' = Result("updateConfidence", c, NoError)
    /\ UNCHANGED <<service, project, learning_patterns, pattern_usage, pattern_evolution,
                   pattern_validation, clock, calls>>

\* the object find builds from a row
FoundPattern(row) ==
    [id |-> row.id,
     pattern |-> row.pattern,
     context |-> row.context,
     timestamp |-> row.timestamp,
     metadata |-> IF row.metadata = "NULL" THEN MetaEmpty ELSE JsonParse(row.metadata),
     confidence |-> row.confidence]

\* PatternStorage.find on a table: WHERE pattern LIKE '%' || s || '%' ORDER BY
\* timestamp DESC. SQL leaves the order of rows with equal timestamps open, so
\* this is the set of the results the query may give
FindIn(table, s) ==
    LET match == {i \in 1..Len(table) : Like(table[i].pattern, <<"%">> \o s \o <<"%">>)}
        n == Cardinality(match)
        orders == {f \in [1..n -> match] :
                     /\ \A k, l \in 1..n : k # l => f[k] # f[l]
                     /\ \A k, l \in 1..n :
                          k < l => table[f[k]].timestamp >= table[f[l]].timestamp}
    IN {<<>> \o [k \in 1..n |-> FoundPattern(table[f[k]])] : f \in orders}

\* PatternStorage.find, reached through LocalStore.findSimilarPattern
Find(s) == FindIn(patterns, s)

\* JSON.stringify of an array of strings
JsonArray(a) == <<"[">> \o a \o <<"]">>

\* usage.adjustments ? JSON.stringify(usage.adjustments) : null
AdjustmentsColumn(a) == IF a = NullText THEN NullText ELSE JsonArray(a)

\* a usage row that records every outcome as partial
UsageRowPartial(usage) ==
    [id |-> LastInsertRowid(pattern_usage),
     pattern_id |-> usage.patternId,
     timestamp |-> usage.timestamp,
     outcome |-> "partial",
     feedback |-> usage.feedback,
     adjustments |-> AdjustmentsColumn(usage.adjustments)]

\* the row INSERT INTO pattern_usage writes for a PatternUsage
UsageRow(usage) ==
    [id |-> LastInsertRowid(pattern_usage),
     pattern_id |-> usage.patternId,
     timestamp |-> usage.timestamp,
     outcome |-> usage.outcome,
     feedback |-> usage.feedback,
     adjustments |-> AdjustmentsColumn(usage.adjustments)]

\* the statement of PatternStorage.recordUsage: the tables after it and its error
InsertUsage(usage, ok) ==
    IF ~ok THEN <<pattern_usage, StorageError>>
    ELSE IF ~ForeignKeyOk(usage.patternId) THEN <<pattern_usage, ForeignKeyError>>
    ELSE <<Append(pattern_usage, UsageRow(usage)), NoError>>

\* PatternStorage.recordUsage, reached through LocalStore.recordPatternUsage
RecordUsageUpTo(usage, max) ==
    /\ Len(pattern_usage) < max
    /\ \E ok \in BOOLEAN :
         LET r == InsertUsage(usage, ok)
         IN /\ pattern_usage' = r[1]
            /\ ret' = Result("recordUsage", NULL, r[2])
    /\ UNCHANGED <<service, project, patterns, learning_patterns, pattern_evolution,
                   pattern_validation, clock, updates, calls>>

\* PatternStorage.recordUsage, while the table has fewer than MaxUsage rows
RecordUsage(usage) == RecordUsageUpTo(usage, MaxUsage)

\* ids a caller may name: those stored, and one that is not
CallerIds == PatternIds \cup {LastInsertRowid(patterns)}

UsageInputs ==
    { [patternId |-> id, timestamp |-> 10, outcome |-> o,
       feedback |-> NullText, adjustments |-> NullText] :
      id \in CallerIds, o \in Outcomes }

\* the row INSERT INTO pattern_evolution writes
EvolutionRow(patternId, changes, outcome) ==
    [id |-> LastInsertRowid(pattern_evolution),
     original_pattern_id |-> patternId,
     changes |-> JsonArray(changes),
     outcome |-> outcome,
     timestamp |-> clock]

\* the statement of PatternStorage.trackEvolution: the table after it and its error
InsertEvolution(patternId, changes, outcome, ok) ==
    IF ~ok THEN <<pattern_evolution, StorageError>>
    ELSE IF ~ForeignKeyOk(patternId) THEN <<pattern_evolution, ForeignKeyError>>
    ELSE <<Append(pattern_evolution, EvolutionRow(patternId, changes, outcome)), NoError>>

\* the row INSERT INTO pattern_validation writes
ValidationRow(patternId, success, context, timestamp, metadata) ==
    [id |-> LastInsertRowid(pattern_validation),
     pattern_id |-> patternId,
     success |-> IF success THEN 1 ELSE 0,
     context |-> context,
     timestamp |-> timestamp,
     metadata |-> metadata]

\* the statement of PatternStorage.validatePattern: the table after it and its error
InsertValidation(patternId, success, context, ok) ==
    IF ~ok THEN <<pattern_validation, StorageError>>
    ELSE IF ~ForeignKeyOk(patternId) THEN <<pattern_validation, ForeignKeyError>>
    ELSE <<Append(pattern_validation, ValidationRow(patternId, success, context, clock, NullText)),
           NoError>>

\* ----------------------------------------------------------- LocalStore
\* changes of a validateAndTrackPattern call: left out, or one change
ChangesInputs == {NullText, <<"formatting updated">>}

\* changes?.length
HasChanges(changes) == changes # NullText /\ Len(changes) > 0

\* LocalStore.validateAndTrackPattern up to its first await:
\* patternStorage.validatePattern has run
ValidateAndTrackValidate(patternId, success, context, changes) ==
    /\ track.pc = "idle"
    /\ InFlight < MaxInFlight
    /\ Len(pattern_validation) < MaxEvents
    /\ \E ok \in BOOLEAN :
         LET r == InsertValidation(patternId, success, context, ok)
         IN /\ pattern_validation' = r[1]
            /\ clock' = IF r[2] = NoError THEN clock + 1 ELSE clock
            /\ IF r[2] = NoError
               THEN /\ track' = [pc |-> "validated", patternId |-> patternId,
                                 success |-> success, changes |-> changes,
                                 validationId |-> LastInsertRowid(pattern_validation)]
                    /\ ret' = ret
               ELSE /\ track' = Idle
                    /\ ret' = Result("validateAndTrackPattern", NULL, r[2])
    /\ UNCHANGED <<service, project, patterns, learning_patterns, pattern_usage, pattern_evolution,
                   updates, learn, chunk>>

\* LocalStore.validateAndTrackPattern after the await: patternStorage.trackEvolution
\* if there are changes
ValidateAndTrackEvolve ==
    /\ track.pc = "validated"
    /\ track' = Idle
    /\ IF HasChanges(track.changes)
       THEN \E ok \in BOOLEAN :
              LET r == InsertEvolution(track.patternId, track.changes,
                                       IF track.success THEN "success" ELSE "failure", ok)
              IN /\ pattern_evolution' = r[1]
                 /\ clock' = IF r[2] = NoError THEN clock + 1 ELSE clock
                 /\ ret' = Result("validateAndTrackPattern", NULL, r[2])
       ELSE /\ pattern_evolution' = pattern_evolution
            /\ clock' = clock
            /\ ret' = Result("validateAndTrackPattern", NULL, NoError)
    /\ UNCHANGED <<service, project, patterns, learning_patterns, pattern_usage, pattern_validation,
                   updates, learn, chunk>>

\* LocalStore.updatePatternValidation
UpdatePatternValidation(patternId, outcome, adjustments) ==
    /\ Len(pattern_validation) < MaxEvents
    /\ \E ok \in BOOLEAN :
         /\ pattern_validation' =
              IF ok /\ ForeignKeyOk(patternId)
              THEN Append(pattern_validation,
                          ValidationRow(patternId, outcome = "success", CtxJest, 10,
                                        <<"{">> \o JsonArray(adjustments) \o <<"}">>))
              ELSE pattern_validation
         /\ ret' = Result("updatePatternValidation", NULL,
                          IF ~ok THEN StorageError
                          ELSE IF ~ForeignKeyOk(patternId) THEN ForeignKeyError
                          ELSE NoError)
    /\ UNCHANGED <<service, project, patterns, learning_patterns, pattern_usage, pattern_evolution,
                   clock, updates, calls>>

\* bulkStore: every insert of the loop, inside db.transaction
RECURSIVE BulkRows(_, _)
BulkRows(table, ps) ==
    IF ps = <<>> THEN table
    ELSE BulkRows(Append(table,
                         [id |-> MaxId(table) + 1,
                          pattern |-> Trim(ps[1].pattern),
                          context |-> ps[1].context,
                          timestamp |-> ps[1].timestamp,
                          metadata |-> JsonStringify(ps[1].metadata),
                          confidence |-> NULL]),
                  Tail(ps))

\* LocalStore.bulkStore: failAt is the insert that fails, 0 if none does;
\* the transaction function rolls back when its body throws
BulkStore(ps, failAt) ==
    /\ Len(patterns) + Len(ps) <= MaxPatterns
    /\ IF failAt = 0
       THEN /\ patterns' = BulkRows(patterns, ps)
            /\ ret' = Result("bulkStore",
                             <<>> \o [i \in 1..Len(ps) |-> MaxId(patterns) + i], NoError)
       ELSE /\ patterns' = patterns
            /\ ret' = Result("bulkStore", <<>>, StorageError)
    /\ UNCHANGED <<service, project, learning_patterns, pattern_usage, pattern_evolution,
                   pattern_validation, clock, updates, calls>>

\* pattern lists handed to bulkStore; this LocalStore has no confidence column
BulkInputs ==
    { << [pattern |-> TextAdd, context |-> CtxReact, timestamp |-> 10,
          metadata |-> MetaUndefined],
         [pattern |-> TextFix, context |-> CtxJest, timestamp |-> 20,
          metadata |-> MetaTest] >> }

\* ------------------------------------------------------ LearningStorage
Fingerprint == <<"p">>

\* LearningPattern objects handed to storeLearningPattern
LearningInputs ==
    { [pattern |-> TextFix, timestamp |-> 10, metadata |-> MetaTest, confidence |-> 70,
       projectContext |-> [fingerprint |-> Fingerprint],
       execution |-> "{outcome:success}", category |-> "code generation"] }

\* JSON.stringify(pattern.projectContext)
JsonContext(projectContext) == <<"{">> \o projectContext.fingerprint \o <<"}">>

\* LearningStorage.store up to its await: the base pattern is stored
LearningStoreBase(lp) ==
    /\ learn.pc = "idle"
    /\ InFlight < MaxInFlight
    /\ Len(patterns) < MaxPatterns
    /\ \E ok \in BOOLEAN :
         IF ok
         THEN /\ patterns' = Append(patterns,
                                    PatternRow([pattern |-> lp.pattern,
                                                context |-> JsonContext(lp.projectContext),
                                                timestamp |-> lp.timestamp,
                                                metadata |-> lp.metadata,
                                                confidence |-> 100]))
              /\ learn' = [pc |-> "stored", patternId |-> LastInsertRowid(patterns),
                           pattern |-> lp]
              /\ ret' = ret
         ELSE /\ patterns' = patterns
              /\ learn' = Idle
              /\ ret' = Result("storeLearningPattern", NULL, StorageError)
    /\ UNCHANGED <<service, project, learning_patterns, pattern_usage, pattern_evolution,
                   pattern_validation, clock, updates, track, chunk>>

\* LearningStorage.store after the await: the learning_patterns row
LearningStoreRow ==
    /\ learn.pc = "stored"
    /\ learn' = Idle
    /\ \E ok \in BOOLEAN :
         IF ok
         THEN /\ learning_patterns' =
                   Append(learning_patterns,
                          [id |-> LastInsertRowid(learning_patterns),
                           pattern_id |-> learn.patternId,
                           project_fingerprint |-> learn.pattern.projectContext.fingerprint,
                           execution_data |-> learn.pattern.execution,
                           category |-> learn.pattern.category])
              /\ ret' = Result("storeLearningPattern", learn.patternId, NoError)
         ELSE /\ learning_patterns' = learning_patterns
              /\ ret' = Result("storeLearningPattern", NULL, StorageError)
    /\ UNCHANGED <<service, project, patterns, pattern_usage, pattern_evolution, pattern_validation,
                   clock, updates, track, chunk>>

\* -------------------------------------------------- LogPatternExtractor
\* what processChunk derives from a chunk before it writes: the LearningPattern
\* fields that reach the store, and the usage it records
ChunkInputs ==
    { [pattern |-> TextFix, context |-> <<"{", "}">>, timestamp |-> 10,
       metadata |-> MetaTest, confidence |-> 80, outcome |-> "success",
       feedback |-> NullText, adjustments |-> <<>>],
      [pattern |-> TextFix, context |-> <<"{", "}">>, timestamp |-> 20,
       metadata |-> MetaTest, confidence |-> 40, outcome |-> "failure",
       feedback |-> NullText, adjustments |-> <<"retry">>] }

\* processChunk, steps A to D: localStore.storePattern(pattern)
ProcessChunkStore(c) ==
    /\ chunk.pc = "idle"
    /\ InFlight < MaxInFlight
    /\ Len(patterns) < MaxPatterns
    /\ \E ok \in BOOLEAN :
         IF ok
         THEN /\ patterns' = Append(patterns, PatternRow(c))
              /\ chunk' = [pc |-> "stored", patternId |-> LastInsertRowid(patterns),
                           input |-> c]
              /\ ret' = ret
         ELSE \* catch (err) { ...; throw err }
              /\ patterns' = patterns
              /\ chunk' = Idle
              /\ ret' = Result("processChunk", NULL, StorageError)
    /\ UNCHANGED <<service, project, learning_patterns, pattern_usage, pattern_evolution,
                   pattern_validation, clock, updates, learn, track>>

\* processChunk, step E: localStore.recordPatternUsage
ProcessChunkUsage ==
    /\ chunk.pc = "stored"
    /\ chunk' = Idle
    /\ \E ok \in BOOLEAN :
         LET r == InsertUsage([patternId |-> chunk.patternId,
                               timestamp |-> clock,
                               outcome |-> chunk.input.outcome,
                               feedback |-> chunk.input.feedback,
                               adjustments |-> chunk.input.adjustments], ok)
         IN /\ pattern_usage' = r[1]
            /\ clock' = IF r[2] = NoError THEN clock + 1 ELSE clock
            /\ ret' = Result("processChunk", NULL, r[2])
    /\ UNCHANGED <<service, project, patterns, learning_patterns, pattern_evolution, pattern_validation,
                   updates, learn, track>>

\* ------------------------------------------------------- specifications
\* rows written and confidence updates made so far
Work ==
    Len(patterns) + Len(learning_patterns) + Len(pattern_usage) + Len(pattern_evolution)
        + Len(pattern_validation) + updates

\* the whole store: every operation, interleaved at its awaits; calls are
\* started while less than MaxWork has been done
Next ==
    \/ Work < MaxWork /\ StorePattern(PatternFix)
    \/ Work < MaxWork /\ \E id \in CallerIds, success \in BOOLEAN :
                            UpdateConfidence(id, success, NoOptions)
    \/ Work < MaxWork /\ \E usage \in UsageInputs : RecordUsage(usage)
    \/ Work < MaxWork /\ \E id \in CallerIds, success \in BOOLEAN, changes \in ChangesInputs :
                            ValidateAndTrackValidate(id, success, CtxJest, changes)
    \/ ValidateAndTrackEvolve
    \/ Work < MaxWork /\ \E id \in CallerIds, outcome \in {"success", "failure"} :
                            UpdatePatternValidation(id, outcome, <<>>)
    \/ Work < MaxWork /\ \E ps \in BulkInputs, failAt \in 0..2 : BulkStore(ps, failAt)
    \/ Work < MaxWork /\ \E lp \in LearningInputs : LearningStoreBase(lp)
    \/ LearningStoreRow
    \/ Work < MaxWork /\ \E c \in ChunkInputs : ProcessChunkStore(c)
    \/ ProcessChunkUsage

Spec == Init /\ [][Next]_vars

\* the confidence model: stores, and confidence updates with every option set
NextConfidence ==
    \/ \E p \in PatternInputs : StorePattern(p)
    \/ \E id \in CallerIds, success \in BOOLEAN, options \in OptionInputs :
         UpdateConfidence(id, success, options)

SpecConfidence == Init /\ [][NextConfidence]_vars

\* usages next to confidence updates
NextUsage ==
    \/ \E p \in PatternInputs : StorePattern(p)
    \/ \E id \in CallerIds, success \in BOOLEAN : UpdateConfidence(id, success, NoOptions)
    \/ \E usage \in UsageInputs : RecordUsage(usage)

SpecUsage == Init /\ [][NextUsage]_vars

\* ------------------------------------------------------------- find
TextUpper == <<"F", "i", "x">>

TextWild == <<"a", "%">>

\* patterns stored before a find: texts with a leading blank, with a wildcard
\* character and in another case, metadata present, empty and left out, and
\* two equal timestamps
FindPatterns ==
    { PatternFix,
      [pattern |-> TextAdd, context |-> CtxReact, timestamp |-> 20,
       metadata |-> MetaUndefined, confidence |-> NULL],
      [pattern |-> TextWild, context |-> CtxJest, timestamp |-> 10,
       metadata |-> MetaEmpty, confidence |-> 50],
      [pattern |-> TextUpper, context |-> CtxReact, timestamp |-> 30,
       metadata |-> MetaTest, confidence |-> 100] }

\* texts handed to find
FindInputs ==
    { TextFix, TextAdd, TextWild, TextUpper, <<"f", "_", "x">>, <<"%">>,
      <<"x", "y", "z">>, <<"i">> }

\* PatternStorage.find as a call: it returns one of the results the query may
\* give, or throws when the statement fails
FindCall(s) ==
    /\ \E ok \in BOOLEAN :
         IF ok
         THEN \E found \in Find(s) : ret' = Result("find", [text |-> s, rows |-> found], NoError)
         ELSE ret' = Result("find", [text |-> s, rows |-> <<>>], StorageError)
    /\ UNCHANGED <<service, project, tables, clock, updates, calls>>

\* stores and finds
NextFind ==
    \/ \E p \in FindPatterns : StorePattern(p)
    \/ \E s \in FindInputs : FindCall(s)

SpecFind == Init /\ [][NextFind]_vars

\* ------------------------------------------- LocalStore, synchronous
\* The synchronous LocalStore keeps a command column next to the text and has
\* no confidence column.

\* String.prototype.toLowerCase
ToLowerCase(s) == [i \in 1..Len(s) |-> Lower(s[i])]

\* s.split(' ')[0]: the characters before the first blank
RECURSIVE FirstSegment(_)
FirstSegment(s) ==
    IF s = <<>> \/ s[1] = " " THEN <<>> ELSE <<s[1]>> \o FirstSegment(Tail(s))

\* pattern.split(' ')[0].toLowerCase()
Command(text) == <<>> \o ToLowerCase(FirstSegment(text))

\* pattern.metadata ? JSON.stringify(pattern.metadata) : null
MetadataColumn(m) == IF m = MetaUndefined THEN "NULL" ELSE JsonStringify(m)

\* a row that keeps the text as it was given
SyncRowUntrimmed(p) ==
    [id |-> LastInsertRowid(patterns),
     pattern |-> p.pattern,
     context |-> p.context,
     command |-> Command(p.pattern),
     timestamp |-> p.timestamp,
     metadata |-> MetadataColumn(p.metadata)]

\* the row storeStmt writes
SyncRow(p) ==
    [id |-> LastInsertRowid(patterns),
     pattern |-> Trim(p.pattern),
     context |-> p.context,
     command |-> Command(p.pattern),
     timestamp |-> p.timestamp,
     metadata |-> MetadataColumn(p.metadata)]

\* LocalStore.storePattern, synchronous
SyncStorePattern(p) ==
    /\ Len(patterns) < MaxPatterns
    /\ \E ok \in BOOLEAN :
         IF ok
         THEN /\ patterns' = Append(patterns, SyncRow(p))
              /\ ret' = Result("storePattern", LastInsertRowid(patterns), NoError)
         ELSE /\ patterns' = patterns
              /\ ret' = Result("storePattern", NULL, StorageError)
    /\ UNCHANGED <<service, project, learning_patterns, pattern_usage, pattern_evolution,
                   pattern_validation, clock, updates, calls>>

TextEmpty == <<>>

TextBlank == <<" ", " ">>

TextKB == <<"k", " ", "b">>

TextKC == <<"k", " ", "c">>

TextKX == <<"k", " ", "x">>

TextCss == <<"k", " ", "c", "s", "s">>

TextBK == <<"b", " ", "k">>

\* a task text of six words
TextSix == <<"k", " ", "1", " ", "2", " ", "3", " ", "4", " ", "5">>

CtxReactNative == <<"r", "n">>

\* OperationPattern objects handed to the synchronous storePattern
SyncPatterns ==
    { [pattern |-> TextEmpty, context |-> CtxJest, timestamp |-> 10,
       metadata |-> MetaTest],
      [pattern |-> TextBlank, context |-> CtxJest, timestamp |-> 20,
       metadata |-> MetaUndefined],
      [pattern |-> TextKC, context |-> CtxReact, timestamp |-> 20,
       metadata |-> MetaKB],
      [pattern |-> TextKB, context |-> CtxReactNative, timestamp |-> 30,
       metadata |-> MetaEmpty],
      [pattern |-> TextKX, context |-> CtxJest, timestamp |-> 30,
       metadata |-> MetaStyling] }

\* task texts handed to findSimilarPattern
TaskTexts == {TextEmpty, TextKB, TextKC, TextCss, TextBK, TextSix}

\* context hints handed to findSimilarPattern; NullText is a call without one
ContextHints == {NullText, CtxReact, CtxJest}

\* pattern.split(/\s+/): the pieces between runs of blanks; a blank at an end
\* of the text leaves an empty piece there
RECURSIVE SplitWs(_)
SplitWs(s) ==
    IF \A i \in 1..Len(s) : ~IsSpace(s[i]) THEN <<s>>
    ELSE LET k == CHOOSE i \in 1..Len(s) :
                      IsSpace(s[i]) /\ \A j \in 1..(i - 1) : ~IsSpace(s[j])
             rest == {i \in (k + 1)..Len(s) : ~IsSpace(s[i])}
             j == IF rest = {} THEN Len(s) + 1
                  ELSE CHOOSE i \in rest : \A h \in rest : i <= h
         IN <<SubSeq(s, 1, k - 1)>> \o SplitWs(SubSeq(s, j, Len(s)))

\* Object.entries of a parsed metadata object, keys and String(value) as texts
Entries(m) ==
    CASE m = MetaKB -> << [key |-> <<"k">>, value |-> <<"b">>] >>
      [] m = MetaStyling ->
           << [key |-> <<"s", "t", "y", "l", "i", "n", "g">>,
               value |-> <<"c", "s", "s">>],
              [key |-> <<"k">>, value |-> <<"x">>] >>
      [] m = MetaTest ->
           << [key |-> <<"t", "a", "s", "k", "T", "y", "p", "e">>,
               value |-> <<"t", "e", "s", "t">>] >>
      [] OTHER -> <<>>

\* what one key/value pair adds to the metadata score, in tenths
EntryScore(patternLower, e) ==
    (IF Contains(patternLower, ToLowerCase(e.value)) THEN 4 ELSE 0)
    + (IF Contains(patternLower, ToLowerCase(e.key)) THEN 2 ELSE 0)
    + (IF /\ e.key = <<"s", "t", "y", "l", "i", "n", "g">>
          /\ \/ Contains(patternLower, <<"s", "t", "y", "l", "e">>)
             \/ Contains(patternLower, <<"s", "t", "y", "l", "e", "d">>)
             \/ Contains(patternLower, <<"c", "s", "s">>)
       THEN 6 ELSE 0)
    + (IF /\ e.key = <<"s", "e", "c", "u", "r", "i", "t", "y">>
          /\ \/ Contains(patternLower, <<"s", "e", "c", "u", "r", "e">>)
             \/ Contains(patternLower, <<"a", "u", "t", "h">>)
             \/ Contains(patternLower,
                         <<"a", "u", "t", "h", "e", "n", "t", "i", "c", "a", "t", "i", "o", "n">>)
       THEN 6 ELSE 0)

RECURSIVE SumScores(_, _)
SumScores(patternLower, es) ==
    IF es = <<>> THEN 0
    ELSE EntryScore(patternLower, es[1]) + SumScores(patternLower, Tail(es))

\* LocalStore.calculateMetadataSimilarity, in tenths
CalculateMetadataSimilarity(pattern, metadata) ==
    Min(SumScores(ToLowerCase(pattern), Entries(metadata)), 10)

\* the two bonuses are added after the division by maxScore
CalculatePatternSimilarityBonusAfter(pattern1, pattern2) ==
    LET words1 == SplitWs(ToLowerCase(pattern1))
        words2 == SplitWs(ToLowerCase(pattern2))
        shared == Cardinality({i \in 1..Len(words1) :
                                 \E j \in 1..Len(words2) : words2[j] = words1[i]})
        maxScore == Max(Len(words1), Len(words2))
    IN [score2 |-> 2 * shared
                   + (IF words1[1] = words2[1] THEN maxScore ELSE 0)
                   + (IF Len(words1) = Len(words2) THEN maxScore ELSE 0),
        maxScore |-> maxScore]

\* LocalStore.calculatePatternSimilarity: score2 is twice the score, so that
\* the similarity is score2 / (2 * maxScore)
CalculatePatternSimilarity(pattern1, pattern2) ==
    LET words1 == SplitWs(ToLowerCase(pattern1))
        words2 == SplitWs(ToLowerCase(pattern2))
        shared == Cardinality({i \in 1..Len(words1) :
                                 \E j \in 1..Len(words2) : words2[j] = words1[i]})
    IN [score2 |-> 2 * shared
                   + (IF words1[1] = words2[1] THEN 1 ELSE 0)
                   + (IF Len(words1) = Len(words2) THEN 1 ELSE 0),
        maxScore |-> Max(Len(words1), Len(words2))]

\* similarity >= 0.3
SimilarEnough(sim) == 5 * sim.score2 >= 3 * sim.maxScore

\* the results a SELECT ... ORDER BY timestamp DESC LIMIT limit may give for
\* the rows of patterns at the indices in match; rows with equal timestamps
\* come in either order
SelectRows(match, limit) ==
    LET n == Cardinality(match)
        orders == {f \in [1..n -> match] :
                     /\ \A k, l \in 1..n : k # l => f[k] # f[l]
                     /\ \A k, l \in 1..n :
                          k < l => patterns[f[k]].timestamp >= patterns[f[l]].timestamp}
    IN {<<>> \o [k \in 1..Min(n, limit) |-> patterns[f[k]]] : f \in orders}

\* WHERE command = ? AND context LIKE '%' || context || '%' ... LIMIT 5
ContextMatches(command, context) ==
    SelectRows({i \in 1..Len(patterns) :
                  /\ patterns[i].command = command
                  /\ Like(patterns[i].context, <<"%">> \o context \o <<"%">>)}, 5)

\* the query does not filter by command
SimilarMatchesAnyCommand(command) == SelectRows(1..Len(patterns), 10)

\* findSimilarStmt: WHERE command = ? ORDER BY timestamp DESC LIMIT 10
SimilarMatches(command) ==
    SelectRows({i \in 1..Len(patterns) : patterns[i].command = command}, 10)

\* JSON.parse(row.metadata || '{}')
ParseOrEmpty(column) == IF column = "NULL" THEN MetaEmpty ELSE JsonParse(column)

\* a strong match needs a metadata score above 0.6
StrongMatchAboveSix(score) == score > 6

\* metadataScore > 0.5
StrongMatch(score) == score > 5

\* LocalStore.findBestMatch: << >> for null, else the one chosen row; the
\* first row whose metadata score is a strong match, else the first row when
\* its words are similar enough
FindBestMatch(pattern, rows) ==
    LET strong == {k \in 1..Len(rows) :
                     StrongMatch(CalculateMetadataSimilarity(
                                     pattern, ParseOrEmpty(rows[k].metadata)))}
    IN IF rows = <<>> THEN <<>>
       ELSE IF strong # {}
            THEN <<rows[CHOOSE k \in strong : \A l \in strong : k <= l]>>
            ELSE IF SimilarEnough(CalculatePatternSimilarity(pattern, rows[1].pattern))
                 THEN <<rows[1]>>
                 ELSE <<>>

\* LocalStore.convertRowToPattern
ConvertRowToPattern(row) ==
    [id |-> row.id,
     pattern |-> row.pattern,
     context |-> row.context,
     timestamp |-> row.timestamp,
     metadata |-> IF row.metadata = "NULL" THEN MetaUndefined
                  ELSE JsonParse(row.metadata)]

\* the values LocalStore.findSimilarPattern (synchronous) may return, with
\* the rows its query gave: found is << >> for null, else the one pattern
SyncFindSimilar(pattern, context) ==
    LET command == Command(pattern)
        queried == IF context # NullText /\ context # <<>>
                   THEN ContextMatches(command, context)
                   ELSE SimilarMatches(command)
    IN {[rows |-> rows,
         found |-> IF FindBestMatch(pattern, rows) = <<>> THEN <<>>
                   ELSE <<ConvertRowToPattern(FindBestMatch(pattern, rows)[1])>>] :
          rows \in queried}

\* a call of LocalStore.findSimilarPattern (synchronous); a failing query
\* throws out of the call
SyncFindSimilarPattern(pattern, context) ==
    /\ \E ok \in BOOLEAN :
         IF ok
         THEN \E r \in SyncFindSimilar(pattern, context) :
                ret' = Result("findSimilarPattern",
                              [pattern |-> pattern, context |-> context,
                               rows |-> r.rows, found |-> r.found], NoError)
         ELSE ret' = Result("findSimilarPattern",
                            [pattern |-> pattern, context |-> context,
                             rows |-> <<>>, found |-> <<>>], StorageError)
    /\ UNCHANGED <<service, project, tables, clock, updates, calls>>

\* the synchronous LocalStore alone: stores and lookups
NextSync ==
    \/ \E p \in SyncPatterns : SyncStorePattern(p)
    \/ \E t \in TaskTexts, c \in ContextHints : SyncFindSimilarPattern(t, c)

SpecSync == Init /\ [][NextSync]_vars

\* LocalStore.findBestMatchForContext: << >> for null, else the one pattern
FindBestMatchForContext(found, context) ==
    LET exact == {k \in 1..Len(found) : found[k].context = context}
        partial == {k \in 1..Len(found) :
                      /\ found[k].context # <<>>
                      /\ \/ Contains(found[k].context, context)
                         \/ Contains(context, found[k].context)}
    IN IF exact # {} THEN <<found[CHOOSE k \in exact : \A l \in exact : k <= l]>>
       ELSE IF partial # {}
            THEN <<found[CHOOSE k \in partial : \A l \in partial : k <= l]>>
            ELSE <<>>

\* the value LocalStore.findSimilarPattern returns for the result of find
FindSimilar(found, context) ==
    IF found = <<>> THEN <<>>
    ELSE IF context # NullText /\ context # <<>>
         THEN FindBestMatchForContext(found, context)
         ELSE <<found[1]>>

\* a call of LocalStore.findSimilarPattern; a failure of the query in find
\* rejects the call
FindSimilarPattern(pattern, context) ==
    /\ \E ok \in BOOLEAN :
         IF ok
         THEN \E found \in Find(pattern) :
                ret' = Result("findSimilarPattern",
                              [pattern |-> pattern, context |-> context,
                               rows |-> found,
                               found |-> FindSimilar(found, context)], NoError)
         ELSE ret' = Result("findSimilarPattern",
                            [pattern |-> pattern, context |-> context,
                             rows |-> <<>>, found |-> <<>>], StorageError)
    /\ UNCHANGED <<service, project, tables, clock, updates, calls>>

\* patterns stored before a lookup
SimilarPatterns ==
    { PatternFix,
      [pattern |-> TextFix, context |-> CtxReactNative, timestamp |-> 30,
       metadata |-> MetaEmpty, confidence |-> 35],
      [pattern |-> TextAdd, context |-> CtxReact, timestamp |-> 20,
       metadata |-> MetaUndefined, confidence |-> NULL],
      [pattern |-> TextKB, context |-> <<>>, timestamp |-> 20,
       metadata |-> MetaKB, confidence |-> 50] }

\* task texts handed to findSimilarPattern
SimilarTexts == {TextEmpty, TextFix, <<"i">>, TextKC}

\* context hints handed to findSimilarPattern; NullText is a call without one
SimilarHints == {NullText, CtxReact, CtxReactNative, <<"n">>}

\* LocalStore over PatternStorage: stores and lookups
NextSimilar ==
    \/ \E p \in SimilarPatterns : StorePattern(p)
    \/ \E t \in SimilarTexts, c \in SimilarHints : FindSimilarPattern(t, c)

SpecSimilar == Init /\ [][NextSimilar]_vars

\* patterns stored before confidence updates and lookups
FloorPatterns ==
    { PatternFix,
      [pattern |-> TextFix, context |-> CtxReactNative, timestamp |-> 30,
       metadata |-> MetaEmpty, confidence |-> 35] }

\* LocalStore: stores, confidence updates and lookups
NextFloor ==
    \/ \E p \in FloorPatterns : StorePattern(p)
    \/ \E id \in 1..MaxPatterns, success \in BOOLEAN,
          options \in {NoOptions, Options(30, 50, NULL, NULL, NULL)} :
         UpdateConfidence(id, success, options)
    \/ \E t \in {TextFix, TextKC}, c \in {NullText, CtxJest} : FindSimilarPattern(t, c)

SpecFloor == Init /\ [][NextFloor]_vars

\* -------------------------------------------------------- MessageChunker
\* the largest number of messages of a transcript
MaxMessages == 3

\* texts of messages
TxStart == "Fix empty array test failure"

TxEndOk == "Tests passing now"

TxEndFail == "Build failed with error"

TxPlain == "Looking at the code"

\* a text that matches a start pattern and an end pattern
TxStartEnd == "Fixed it, tests passing now"

TxTool == "{\"tool\":\"write_to_file\"}"

TxBadTool == "write_to_file"

TxError == "ENOENT: no such file"

TxEmpty == ""

\* TASK_START_PATTERNS.some(pattern => pattern.test(text))
MatchesTaskStart(text) == text \in {TxStart, TxStartEnd}

\* TASK_END_PATTERNS.some(pattern => pattern.test(text))
MatchesTaskEnd(text) == text \in {TxEndOk, TxEndFail, TxStartEnd}

\* text.toLowerCase().includes('fail')
IncludesFail(text) == text \in {TxStart, TxEndFail}

\* JSON.parse(text) does not throw
ParsesAsJson(text) == text = TxTool

\* the say and text of the messages of a transcript
MessageKinds ==
    { [say |-> "text", text |-> TxStart],
      [say |-> "text", text |-> TxEndOk],
      [say |-> "text", text |-> TxEndFail],
      [say |-> "text", text |-> TxPlain],
      [say |-> "text", text |-> TxStartEnd],
      [say |-> "text", text |-> TxEmpty],
      [say |-> "tool", text |-> TxTool],
      [say |-> "tool", text |-> TxBadTool],
      [say |-> "error", text |-> TxError] }

\* the transcripts of up to max ClineMessage objects of the kinds, with
\* timestamps among times, in the order of their timestamps
RECURSIVE TranscriptsOf(_, _, _)
TranscriptsOf(kinds, times, max) ==
    IF max = 0 THEN {<<>>}
    ELSE LET shorter == TranscriptsOf(kinds, times, max - 1)
         IN  shorter \cup
             {Append(y[1], [say |-> y[2].say, text |-> y[2].text, ts |-> y[3]]) :
                y \in {z \in shorter \X kinds \X times :
                         /\ Len(z[1]) = max - 1
                         /\ (z[1] # <<>> => z[1][Len(z[1])].ts <= z[3])}}

\* the transcripts handed to chunkMessages
Transcripts == TranscriptsOf(MessageKinds, {0, 100}, MaxMessages)

\* MessageChunker.isTaskStart
IsTaskStart(msg) == msg.say = "text" /\ MatchesTaskStart(msg.text)

\* no message ends a task
IsTaskEndNever(msg) == FALSE

\* MessageChunker.isTaskEnd
IsTaskEnd(msg) == msg.say = "text" /\ MatchesTaskEnd(msg.text)

\* a checkpoint; success is "true", "false" or "undefined"
Checkpoint(ts, type, message, success) ==
    [ts |-> ts, type |-> type, message |-> message, success |-> success]

\* a chunk is opened without its first message
InitializeChunkNoMessage(msg) ==
    [startTs |-> msg.ts,
     endTs |-> msg.ts,
     messages |-> <<>>,
     checkpoints |-> <<Checkpoint(msg.ts, "start", msg.text, "undefined")>>]

\* MessageChunker.initializeChunk
InitializeChunk(msg) ==
    [startTs |-> msg.ts,
     endTs |-> msg.ts,
     messages |-> <<msg>>,
     checkpoints |-> <<Checkpoint(msg.ts, "start", msg.text, "undefined")>>]

\* checkpoints with the success of the first tool_usage checkpoint set to false
FailFirstToolUsage(checkpoints) ==
    LET tools == {k \in 1..Len(checkpoints) : checkpoints[k].type = "tool_usage"}
    IN IF tools = {} THEN checkpoints
       ELSE [checkpoints EXCEPT
               ![CHOOSE k \in tools : \A l \in tools : k <= l].success = "false"]

\* checkpoints with the success of the last tool_usage checkpoint set to false
FailLastToolUsage(checkpoints) ==
    LET tools == {k \in 1..Len(checkpoints) : checkpoints[k].type = "tool_usage"}
    IN IF tools = {} THEN checkpoints
       ELSE [checkpoints EXCEPT
               ![CHOOSE k \in tools : \A l \in tools : l <= k].success = "false"]

\* the checkpoints after MessageChunker.processMessage has looked at msg
ProcessedCheckpoints(msg, checkpoints) ==
    CASE msg.say = "tool" ->
           IF ParsesAsJson(msg.text)
           THEN Append(checkpoints, Checkpoint(msg.ts, "tool_usage", msg.text, "true"))
           ELSE checkpoints
      [] msg.say = "error" ->
           FailLastToolUsage(Append(checkpoints,
                                    Checkpoint(msg.ts, "error", msg.text, "false")))
      [] msg.say = "text" ->
           IF IsTaskEnd(msg)
           THEN Append(checkpoints,
                       Checkpoint(msg.ts, "completion", msg.text,
                                  IF IncludesFail(msg.text) THEN "false" ELSE "true"))
           ELSE checkpoints
      [] OTHER -> checkpoints

\* the message is added to the chunk and leaves no checkpoint
ProcessMessageNoCheckpoint(msg, taskChunk) ==
    [startTs |-> taskChunk.startTs,
     endTs |-> msg.ts,
     messages |-> Append(taskChunk.messages, msg),
     checkpoints |-> taskChunk.checkpoints]

\* MessageChunker.processMessage
ProcessMessage(msg, taskChunk) ==
    [startTs |-> taskChunk.startTs,
     endTs |-> msg.ts,
     messages |-> Append(taskChunk.messages, msg),
     checkpoints |-> ProcessedCheckpoints(msg, taskChunk.checkpoints)]

\* a chunk is closed without a completion checkpoint
FinalizeChunkUnchanged(taskChunk) == taskChunk

\* MessageChunker.finalizeChunk
FinalizeChunk(taskChunk) ==
    IF \E k \in 1..Len(taskChunk.checkpoints) : taskChunk.checkpoints[k].type = "completion"
    THEN taskChunk
    ELSE [taskChunk EXCEPT !.checkpoints =
            Append(@, Checkpoint(taskChunk.endTs, "completion",
                                 "Task ended without explicit completion", "undefined"))]

\* every chunk passes the filter
ValidChunkAlways(taskChunk) == TRUE

\* the filter of MessageChunker.validateAndCleanChunks
ValidChunk(taskChunk) ==
    /\ ~(Len(taskChunk.checkpoints) < 2)
    /\ ~(Len(taskChunk.messages) < 2)
    /\ ~(taskChunk.endTs - taskChunk.startTs < 100)

\* MessageChunker.validateAndCleanChunks
ValidateAndCleanChunks(chunks) == SelectSeq(chunks, ValidChunk)

\* the loop of MessageChunker.chunkMessages: current is << >> for null, else
\* the one open chunk; the value is the chunks before the filter
RECURSIVE ChunkLoop(_, _, _)
ChunkLoop(messages, current, chunks) ==
    IF messages = <<>>
    THEN IF current # <<>> THEN Append(chunks, FinalizeChunk(current[1])) ELSE chunks
    ELSE LET msg == Head(messages)
         IN IF msg.text = TxEmpty
            THEN ChunkLoop(Tail(messages), current, chunks)
            ELSE IF IsTaskStart(msg)
            THEN ChunkLoop(Tail(messages), <<InitializeChunk(msg)>>,
                           IF current # <<>>
                           THEN Append(chunks, FinalizeChunk(current[1]))
                           ELSE chunks)
            ELSE IF current # <<>>
            THEN IF IsTaskEnd(msg)
                 THEN ChunkLoop(Tail(messages), <<>>,
                                Append(chunks,
                                       FinalizeChunk(ProcessMessage(msg, current[1]))))
                 ELSE ChunkLoop(Tail(messages), <<ProcessMessage(msg, current[1])>>,
                                chunks)
            ELSE ChunkLoop(Tail(messages), current, chunks)

\* the chunks of a transcript before the filter
CandidateChunks(messages) == ChunkLoop(messages, <<>>, <<>>)

\* MessageChunker.chunkMessages
ChunkMessages(messages) == ValidateAndCleanChunks(CandidateChunks(messages))

\* a call of MessageChunker.chunkMessages; the chunker keeps nothing between
\* calls, so a behaviour holds one call
ChunkMessagesCall ==
    /\ ret.op # "chunkMessages"
    /\ \E messages \in Transcripts :
         ret' = Result("chunkMessages",
                       [messages |-> messages, chunks |-> ChunkMessages(messages)],
                       NoError)
    /\ UNCHANGED <<service, project, tables, clock, updates, calls>>

\* the MessageChunker alone
NextChunker == ChunkMessagesCall

SpecChunker == Init /\ [][NextChunker]_vars

\* ------------------------------------- LogPatternExtractor on transcripts
\* the error check comes before the look at the completion checkpoint
DetermineOutcomeErrorFirst(taskChunk) ==
    IF \E k \in 1..Len(taskChunk.checkpoints) : taskChunk.checkpoints[k].type = "error"
    THEN "failure"
    ELSE IF \E k \in 1..Len(taskChunk.checkpoints) :
              /\ taskChunk.checkpoints[k].type = "completion"
              /\ taskChunk.checkpoints[k].success = "true"
         THEN "success"
         ELSE "partial"

\* LogPatternExtractor.determineOutcome
DetermineOutcome(taskChunk) ==
    LET completions == {k \in 1..Len(taskChunk.checkpoints) :
                          taskChunk.checkpoints[k].type = "completion"}
        completion == CHOOSE k \in completions : \A l \in completions : k <= l
    IN IF completions # {} /\ taskChunk.checkpoints[completion].success = "true"
       THEN "success"
       ELSE IF \E k \in 1..Len(taskChunk.checkpoints) :
                 taskChunk.checkpoints[k].type = "error"
            THEN "failure"
            ELSE "partial"

\* tool usage adds nothing to the confidence
CalculateConfidenceNoToolBonus(taskChunk, outcome) ==
    Max(0, Min(100, 50 + (CASE outcome = "success" -> 20
                            [] outcome = "failure" -> 0 - 20
                            [] outcome = "partial" -> 10
                            [] OTHER -> 0)))

\* LogPatternExtractor.calculateConfidence, in hundredths
CalculateConfidence(taskChunk, outcome) ==
    LET c == 50 + (CASE outcome = "success" -> 20
                     [] outcome = "failure" -> 0 - 20
                     [] outcome = "partial" -> 10
                     [] OTHER -> 0)
        d == IF \E k \in 1..Len(taskChunk.checkpoints) :
                  taskChunk.checkpoints[k].type = "tool_usage"
             THEN c + 10 ELSE c
    IN Max(0, Min(100, d))

\* LogPatternExtractor.deriveIntent
DeriveIntent(taskChunk) ==
    IF taskChunk.messages = <<>> THEN "No messages in chunk"
    ELSE IF taskChunk.messages[1].text = TxTool THEN "Some JSON-based task"
    ELSE IF taskChunk.messages[1].text = TxEmpty THEN "Empty text"
    ELSE taskChunk.messages[1].text

\* LogPatternExtractor.extractFeedback: the message of the last feedback
\* checkpoint, NullText for undefined
ExtractFeedback(taskChunk) ==
    LET feedbacks == {k \in 1..Len(taskChunk.checkpoints) :
                        taskChunk.checkpoints[k].type = "feedback"}
    IN IF feedbacks = {} THEN NullText
       ELSE <<taskChunk.checkpoints[CHOOSE k \in feedbacks :
                                      \A l \in feedbacks : l <= k].message>>

\* the messages of all tool_usage checkpoints of a chunk that has an error
ExtractAdjustmentsAllTools(taskChunk) ==
    LET cps == taskChunk.checkpoints
    IN IF \E e \in 1..Len(cps) : cps[e].type = "error"
       THEN <<>> \o [i \in 1..Len(SelectSeq(cps, LAMBDA cp : cp.type = "tool_usage")) |->
                       SelectSeq(cps, LAMBDA cp : cp.type = "tool_usage")[i].message]
       ELSE <<>>

\* LogPatternExtractor.extractAdjustments: the messages of the tool_usage
\* checkpoints that come after an error checkpoint
ExtractAdjustments(taskChunk) ==
    LET cps == taskChunk.checkpoints
        after == {k \in 1..Len(cps) :
                    /\ cps[k].type = "tool_usage"
                    /\ \E e \in 1..(k - 1) : cps[e].type = "error"}
        nth(i) == CHOOSE k \in after : Cardinality({l \in after : l <= k}) = i
    IN <<>> \o [i \in 1..Cardinality(after) |-> cps[nth(i)].message]

\* JSON.stringify of the context object processChunk builds; the project
\* context string is the fingerprint
ChunkContext(taskChunk) == <<"{">> \o Fingerprint \o <<"}">>

\* toolData.tool || toolData.type || 'unknown' of a checkpoint message; a
\* message that JSON.parse rejects gives the fallback object, whose tool is
\* 'unknown'
ToolOf(message) == IF ParsesAsJson(message) THEN "write_to_file" ELSE "unknown"

\* LogPatternExtractor.extractToolUsage: one record per tool_usage checkpoint,
\* in order; the raw member of the fallback object is not copied
ExtractToolUsage(taskChunk) ==
    LET tools == SelectSeq(taskChunk.checkpoints, LAMBDA cp : cp.type = "tool_usage")
    IN [k \in 1..Len(tools) |->
          [tool |-> ToolOf(tools[k].message),
           params |-> "{}",
           timestamp |-> tools[k].ts,
           success |-> tools[k].success = "true"]]

\* what processChunk derives from a chunk, steps A to C: the fields of the
\* LearningPattern that reach the store, and the usage it records
LearningPatternOf(taskChunk) ==
    [pattern |-> DeriveIntent(taskChunk),
     context |-> ChunkContext(taskChunk),
     timestamp |-> taskChunk.startTs,
     metadata |-> MetaOutcome(DetermineOutcome(taskChunk)),
     confidence |-> CalculateConfidence(taskChunk, DetermineOutcome(taskChunk)),
     projectContext |-> [fingerprint |-> Fingerprint],
     toolUsage |-> ExtractToolUsage(taskChunk),
     outcome |-> DetermineOutcome(taskChunk),
     feedback |-> ExtractFeedback(taskChunk),
     adjustments |-> ExtractAdjustments(taskChunk)]

\* the largest number of messages of a transcript handed to extractPatterns
MaxExtractMessages == 4

\* the transcripts handed to extractPatterns: start texts, tool messages,
\* errors and end texts
ExtractTranscripts ==
    TranscriptsOf({k \in MessageKinds : k.text \notin {TxPlain, TxEmpty, TxStartEnd}},
                  {0, 100, 200}, MaxExtractMessages)

\* messages.filter(m => !(m.say === 'api_req_started' || ...))
Relevant(msg) == msg.say \notin {"api_req_started", "api_req_finished"}

\* extractPatterns up to its first await: the transcript is chunked; a
\* behaviour holds one run of extractPatterns, and lookups after it
ExtractPatternsStart ==
    /\ chunk.pc = "idle"
    /\ ret.op \notin {"extractPatterns", "findPatternsByFingerprint"}
    /\ \E messages \in ExtractTranscripts :
         LET chunks == ChunkMessages(SelectSeq(messages, Relevant))
         IN IF chunks = <<>>
            THEN /\ chunk' = Idle
                 /\ ret' = Result("extractPatterns",
                                  [messages |-> messages, chunks |-> chunks], NoError)
            ELSE /\ chunk' = [pc |-> "chunked", messages |-> messages,
                              chunks |-> chunks, done |-> 0]
                 /\ ret' = ret
    /\ UNCHANGED <<service, project, tables, clock, updates, learn, track>>

\* a failure of storePattern is swallowed and the loop goes on
ExtractStoreSwallowed ==
    /\ chunk.pc = "chunked"
    /\ \E ok \in BOOLEAN :
         IF ok
         THEN /\ patterns' = Append(patterns,
                                    PatternRow(LearningPatternOf(chunk.chunks[chunk.done + 1])))
              /\ chunk' = [pc |-> "stored", messages |-> chunk.messages,
                           chunks |-> chunk.chunks, done |-> chunk.done,
                           patternId |-> LastInsertRowid(patterns)]
              /\ ret' = ret
         ELSE /\ patterns' = patterns
              /\ IF chunk.done + 1 < Len(chunk.chunks)
                 THEN /\ chunk' = [pc |-> "chunked", messages |-> chunk.messages,
                                   chunks |-> chunk.chunks, done |-> chunk.done + 1]
                      /\ ret' = ret
                 ELSE /\ chunk' = Idle
                      /\ ret' = Result("extractPatterns",
                                       [messages |-> chunk.messages,
                                        chunks |-> chunk.chunks], NoError)
    /\ UNCHANGED <<service, project, learning_patterns, pattern_usage, pattern_evolution,
                   pattern_validation, clock, updates, learn, track>>

\* processChunk of the next chunk, steps A to D: localStore.storePattern
ExtractStore ==
    /\ chunk.pc = "chunked"
    /\ \E ok \in BOOLEAN :
         IF ok
         THEN /\ patterns' = Append(patterns,
                                    PatternRow(LearningPatternOf(chunk.chunks[chunk.done + 1])))
              /\ chunk' = [pc |-> "stored", messages |-> chunk.messages,
                           chunks |-> chunk.chunks, done |-> chunk.done,
                           patternId |-> LastInsertRowid(patterns)]
              /\ ret' = ret
         ELSE \* catch (err) { ...; throw err }
              /\ patterns' = patterns
              /\ chunk' = Idle
              /\ ret' = Result("extractPatterns",
                               [messages |-> chunk.messages, chunks |-> chunk.chunks],
                               StorageError)
    /\ UNCHANGED <<service, project, learning_patterns, pattern_usage, pattern_evolution,
                   pattern_validation, clock, updates, learn, track>>

\* processChunk of the same chunk, step E: localStore.recordPatternUsage; the
\* loop of extractPatterns then goes on to the next chunk or returns
ExtractUsage ==
    /\ chunk.pc = "stored"
    /\ \E ok \in BOOLEAN :
         LET lp == LearningPatternOf(chunk.chunks[chunk.done + 1])
             r == InsertUsage([patternId |-> chunk.patternId,
                               timestamp |-> clock,
                               outcome |-> lp.outcome,
                               feedback |-> lp.feedback,
                               adjustments |-> lp.adjustments], ok)
         IN /\ pattern_usage' = r[1]
            /\ clock' = IF r[2] = NoError THEN clock + 1 ELSE clock
            /\ IF r[2] = NoError /\ chunk.done + 1 < Len(chunk.chunks)
               THEN /\ chunk' = [pc |-> "chunked", messages |-> chunk.messages,
                                 chunks |-> chunk.chunks, done |-> chunk.done + 1]
                    /\ ret' = ret
               ELSE /\ chunk' = Idle
                    /\ ret' = Result("extractPatterns",
                                     [messages |-> chunk.messages,
                                      chunks |-> chunk.chunks], r[2])
    /\ UNCHANGED <<service, project, patterns, learning_patterns, pattern_evolution, pattern_validation,
                   updates, learn, track>>

\* the fingerprint arguments of findPatternsByFingerprint: the empty string and
\* the fingerprint of the project
FingerprintInputs == {<<>>, Fingerprint}

\* SELECT p.* FROM patterns p JOIN learning_patterns lp ON p.id = lp.pattern_id
\* WHERE lp.project_fingerprint = ?: one row per joined pair, here in the order
\* of the learning_patterns rows, each mapped to an OperationPattern
FindPatternsByFingerprint(fingerprint) ==
    IF fingerprint = <<>> THEN <<>>
    ELSE LET joined == SelectSeq(learning_patterns,
                                 LAMBDA lp : /\ lp.project_fingerprint = fingerprint
                                             /\ lp.pattern_id \in PatternIds)
         IN  <<>> \o [i \in 1..Len(joined) |->
                        FoundPattern(patterns[RowOf(joined[i].pattern_id)])]

\* LocalStore.findPatternsByFingerprint, called when no run is under way
FindPatternsByFingerprintCall ==
    /\ chunk.pc = "idle"
    /\ ret.op = "extractPatterns"
    /\ \E fingerprint \in FingerprintInputs :
         ret' = Result("findPatternsByFingerprint",
                       [fingerprint |-> fingerprint,
                        rows |-> FindPatternsByFingerprint(fingerprint)], NoError)
    /\ UNCHANGED <<service, project, tables, clock, updates, learn, track, chunk>>

\* the learning pipeline on a transcript
NextExtract ==
    \/ ExtractPatternsStart
    \/ ExtractStore
    \/ ExtractUsage

SpecExtract == Init /\ [][NextExtract]_vars

\* the learning pipeline on a transcript, then a lookup by fingerprint
NextFingerprint ==
    \/ ExtractPatternsStart
    \/ ExtractStore
    \/ ExtractUsage
    \/ FindPatternsByFingerprintCall

SpecFingerprint == Init /\ [][NextFingerprint]_vars

\* ------------------------------------------------------- PatternService
\* the largest number of processTaskLogs calls of a behaviour
MaxCalls == 3

\* the task directories under globalStoragePath/tasks
TaskIds == {"task-1", "task-2"}

\* a processTaskLogs call and where it stands: "skipped" (returned at the
\* guard), "reading" (awaits fs.readFile), "extracting" (awaits
\* extractPatterns) or "ended" (returned after the finally block)
TaskCall(taskId, pc) == [taskId |-> taskId, pc |-> pc]

\* what a processTaskLogs call that returned did
TaskResult(call, taskId, outcome) ==
    Result("processTaskLogs", [call |-> call, taskId |-> taskId, outcome |-> outcome],
           NoError)

\* processTaskLogs without the guard on processingTasks
ProcessTaskLogsUnguarded(taskId) ==
    /\ Len(taskCalls) < MaxCalls
    /\ processingTasks' = processingTasks \cup {taskId}
    /\ taskCalls' = Append(taskCalls, TaskCall(taskId, "reading"))
    /\ ret' = ret
    /\ UNCHANGED <<tables, clock, updates, calls, project>>

\* PatternService.processTaskLogs up to its first await
ProcessTaskLogs(taskId) ==
    /\ Len(taskCalls) < MaxCalls
    /\ IF taskId \in processingTasks
       THEN /\ processingTasks' = processingTasks
            /\ taskCalls' = Append(taskCalls, TaskCall(taskId, "skipped"))
            /\ ret' = TaskResult(Len(taskCalls) + 1, taskId, "skipped")
       ELSE /\ processingTasks' = processingTasks \cup {taskId}
            /\ taskCalls' = Append(taskCalls, TaskCall(taskId, "reading"))
            /\ ret' = ret
    /\ UNCHANGED <<tables, clock, updates, calls, project>>

\* a failed read or parse leaves the taskId in processingTasks
ReadFileSettlesNoFinally(call) ==
    /\ call \in 1..Len(taskCalls)
    /\ taskCalls[call].pc = "reading"
    /\ \E outcome \in {"read", "ENOENT", "SyntaxError"} :
         IF outcome = "read"
         THEN /\ taskCalls' = [taskCalls EXCEPT ![call].pc = "extracting"]
              /\ processingTasks' = processingTasks
              /\ ret' = ret
         ELSE /\ taskCalls' = [taskCalls EXCEPT ![call].pc = "ended"]
              /\ processingTasks' = processingTasks
              /\ ret' = TaskResult(call, taskCalls[call].taskId, "failed")
    /\ UNCHANGED <<tables, clock, updates, calls, project>>

\* processTaskLogs after fs.readFile settled: JSON.parse and the call of
\* extractPatterns, or the catch and finally blocks
ReadFileSettles(call) ==
    /\ call \in 1..Len(taskCalls)
    /\ taskCalls[call].pc = "reading"
    /\ \E outcome \in {"read", "ENOENT", "SyntaxError"} :
         IF outcome = "read"
         THEN /\ taskCalls' = [taskCalls EXCEPT ![call].pc = "extracting"]
              /\ processingTasks' = processingTasks
              /\ ret' = ret
         ELSE /\ taskCalls' = [taskCalls EXCEPT ![call].pc = "ended"]
              /\ processingTasks' = processingTasks \ {taskCalls[call].taskId}
              /\ ret' = TaskResult(call, taskCalls[call].taskId, "failed")
    /\ UNCHANGED <<tables, clock, updates, calls, project>>

\* processTaskLogs after extractPatterns settled: the catch block when it
\* rejected, then the finally block
ExtractPatternsSettles(call) ==
    /\ call \in 1..Len(taskCalls)
    /\ taskCalls[call].pc = "extracting"
    /\ taskCalls' = [taskCalls EXCEPT ![call].pc = "ended"]
    /\ processingTasks' = processingTasks \ {taskCalls[call].taskId}
    /\ \E resolved \in BOOLEAN :
         ret' = TaskResult(call, taskCalls[call].taskId,
                           IF resolved THEN "extracted" ELSE "failed")
    /\ UNCHANGED <<tables, clock, updates, calls, project>>

\* the calls taskDirs.map makes, one directory after the other
RECURSIVE MapProcessTaskLogs(_, _, _)
MapProcessTaskLogs(taskDirs, callsMade, processing) ==
    IF taskDirs = <<>> THEN <<callsMade, processing>>
    ELSE LET taskId == Head(taskDirs)
         IN IF taskId \in processing
            THEN MapProcessTaskLogs(Tail(taskDirs),
                                    Append(callsMade, TaskCall(taskId, "skipped")),
                                    processing)
            ELSE MapProcessTaskLogs(Tail(taskDirs),
                                    Append(callsMade, TaskCall(taskId, "reading")),
                                    processing \cup {taskId})

\* PatternService.processPendingTasks after fs.readdir resolved: processTaskLogs
\* is called for every task directory before any of the calls goes on
ProcessPendingTasks ==
    /\ Len(taskCalls) + Cardinality(TaskIds) <= MaxCalls
    /\ \E taskDirs \in {<<"task-1", "task-2">>, <<"task-2", "task-1">>} :
         LET made == MapProcessTaskLogs(taskDirs, taskCalls, processingTasks)
         IN /\ taskCalls' = made[1]
            /\ processingTasks' = made[2]
    /\ ret' = ret
    /\ UNCHANGED <<tables, clock, updates, calls, project>>

\* the PatternService
NextService ==
    \/ \E taskId \in TaskIds : ProcessTaskLogs(taskId)
    \/ \E call \in 1..MaxCalls : ReadFileSettles(call)
    \/ \E call \in 1..MaxCalls : ExtractPatternsSettles(call)
    \/ ProcessPendingTasks

SpecService == Init /\ [][NextService]_vars

\* the PatternService when every promise it awaits settles
SpecServiceLive ==
    /\ SpecService
    /\ \A call \in 1..MaxCalls :
         WF_vars(ReadFileSettles(call)) /\ WF_vars(ExtractPatternsSettles(call))


\* ------------------------------------------------- getPatternHistory
\* the largest number of usage rows before a getPatternHistory call
MaxHistory == 3

\* the pattern ids the callers name: the first two rowids
HistoryIds == {1, 2}

\* PatternUsage objects with and without adjustments
HistoryInputs ==
    { [patternId |-> id, timestamp |-> 10, outcome |-> o,
       feedback |-> NullText, adjustments |-> a] :
      id \in HistoryIds, o \in Outcomes, a \in {NullText, <<"retry", "patch">>} }

\* JSON.parse of the text JSON.stringify made of an array of strings
JsonParseArray(text) == SubSeq(text, 2, Len(text) - 1)

\* adaptationRows.map(row => JSON.parse(row.adjustments)).flat()
RECURSIVE Flat(_)
Flat(rows) ==
    IF rows = <<>> THEN <<>>
    ELSE JsonParseArray(Head(rows).adjustments) \o Flat(Tail(rows))

\* the history counts the usage rows of every pattern
GetPatternHistoryOfAll(patternId) ==
    [successes |-> Len(SelectSeq(pattern_usage, LAMBDA row : row.outcome = "success")),
     failures |-> Len(SelectSeq(pattern_usage, LAMBDA row : row.outcome = "failure")),
     adaptations |-> Flat(SelectSeq(pattern_usage,
                                    LAMBDA row : row.adjustments # NullText))]

\* the two queries of LearningStorage.getPatternHistory and the object it
\* returns; rows come in rowid order
GetPatternHistory(patternId) ==
    [successes |-> Len(SelectSeq(pattern_usage,
                                 LAMBDA row : /\ row.pattern_id = patternId
                                              /\ row.outcome = "success")),
     failures |-> Len(SelectSeq(pattern_usage,
                                LAMBDA row : /\ row.pattern_id = patternId
                                             /\ row.outcome = "failure")),
     adaptations |-> Flat(SelectSeq(pattern_usage,
                                    LAMBDA row : /\ row.pattern_id = patternId
                                                 /\ row.adjustments # NullText))]

\* a call of LearningStorage.getPatternHistory
GetPatternHistoryCall(patternId) ==
    /\ ret' = Result("getPatternHistory",
                     [patternId |-> patternId, history |-> GetPatternHistory(patternId)],
                     NoError)
    /\ UNCHANGED <<tables, clock, updates, calls, service, project>>

\* store, recordUsage and getPatternHistory
NextHistory ==
    \/ StorePattern(PatternFix)
    \/ \E usage \in HistoryInputs : RecordUsageUpTo(usage, MaxHistory)
    \/ \E id \in HistoryIds : GetPatternHistoryCall(id)

SpecHistory == Init /\ [][NextHistory]_vars


\* ------------------------------------------------------- ProjectContext
\* the largest number of changes in fileChangesHistory
MaxChanges == 2

\* structure.root, as path segments
Root == <<"workspace">>

\* path.normalize on segments: '.' is dropped and '..' removes the segment
\* before it
RECURSIVE Normalize(_, _)
Normalize(segments, done) ==
    IF segments = <<>> THEN done
    ELSE IF Head(segments) = "." THEN Normalize(Tail(segments), done)
    ELSE IF Head(segments) = ".." /\ done # <<>> /\ done[Len(done)] # ".."
    THEN Normalize(Tail(segments), SubSeq(done, 1, Len(done) - 1))
    ELSE Normalize(Tail(segments), Append(done, Head(segments)))

\* path.join
PathJoin(a, b) == Normalize(a \o b, <<>>)

\* the number of leading segments two paths share
RECURSIVE CommonPrefix(_, _)
CommonPrefix(a, b) ==
    IF a = <<>> \/ b = <<>> \/ Head(a) # Head(b) THEN 0
    ELSE 1 + CommonPrefix(Tail(a), Tail(b))

\* path.relative(from, to)
PathRelative(from, to) ==
    LET shared == CommonPrefix(from, to)
    IN [i \in 1..(Len(from) - shared) |-> ".."] \o SubSeq(to, shared + 1, Len(to))

\* the FileChange.filePath values of the callers, relative to the root
ChangedPaths == {<<"a.ts">>}

\* the filePath arguments of validateStructure
ValidatedPaths ==
    { PathJoin(Root, <<"a.ts">>), PathJoin(Root, <<"..", "outside.txt">>),
      PathJoin(Root, <<".env">>) }

\* the change lists handed to updateContext
ChangeLists ==
    LET change == {[filePath |-> f, type |-> t] :
                     f \in ChangedPaths, t \in {"created", "modified", "deleted", "read"}}
    IN {<<c>> : c \in change} \cup {<<c, d>> : c \in change, d \in change}

\* the description of the first rule of defaultRestrictions that matches the
\* path, when that rule forbids the path; <<>> when no rule forbids it
Restriction(relativePath) ==
    IF Len(relativePath) > 1 /\ relativePath[1] = "node_modules"
    THEN <<"Restricted system directory">>
    ELSE IF relativePath # <<>> /\ relativePath[Len(relativePath)] = ".env"
    THEN <<"Sensitive environment files">>
    ELSE IF Len(relativePath) > 1 /\ relativePath[1] = ".git"
    THEN <<"Git system directory">>
    ELSE <<>>

\* context: 'workspace'
CtxWorkspace == <<"w", "o", "r", "k", "s", "p", "a", "c", "e">>

\* the loop of updateContext on the keys of structure.files: the changes before
\* position stop are applied
RECURSIVE ApplyChanges(_, _, _)
ApplyChanges(tracked, changes, stop) ==
    IF changes = <<>> \/ stop = 1 THEN tracked
    ELSE ApplyChanges(IF Head(changes).type = "deleted"
                      THEN tracked \ {Head(changes).filePath}
                      ELSE tracked \cup {Head(changes).filePath},
                      Tail(changes), stop - 1)

\* ProjectContext.updateContext: the changes go to the history, then they are
\* applied one by one; fs.stat of a created, modified or read file may throw,
\* which ends the call (failAt is the position of that change, 0 for none)
UpdateContext(changes) ==
    /\ Len(fileChangesHistory) + Len(changes) <= MaxChanges
    /\ fileChangesHistory' = fileChangesHistory \o changes
    /\ \E failAt \in 0..Len(changes) :
         /\ failAt # 0 => changes[failAt].type # "deleted"
         /\ files' = ApplyChanges(files, changes,
                                  IF failAt = 0 THEN Len(changes) + 1 ELSE failAt)
         /\ ret' = Result("updateContext", [changes |-> changes, failAt |-> failAt],
                          IF failAt = 0 THEN NoError ELSE "ENOENT")
    /\ UNCHANGED <<tables, clock, updates, calls, service>>

\* the ValidationResult of validateStructure; reason <<>> when it has none
ValidationResult(filePath, operation) ==
    LET relativePath == PathRelative(Root, filePath)
    IN IF relativePath # <<>> /\ relativePath[1] = ".."
       THEN [isValid |-> FALSE,
             reason |-> <<"Invalid path: Attempted to access outside project directory">>]
       ELSE IF Restriction(relativePath) # <<>>
       THEN [isValid |-> FALSE, reason |-> Restriction(relativePath)]
       ELSE IF operation = "create" /\ relativePath \in files
       THEN [isValid |-> FALSE, reason |-> <<"File already exists">>]
       ELSE IF operation \in {"delete", "modify"} /\ relativePath \notin files
       THEN [isValid |-> FALSE, reason |-> <<"File does not exist">>]
       ELSE [isValid |-> TRUE, reason |-> <<>>]

\* ProjectContext.validateStructure: a valid operation is stored as a pattern
\* when the context has a LocalStore; a failure of the store is only logged
ValidateStructure(filePath, operation) ==
    /\ ret' = Result("validateStructure",
                     [filePath |-> filePath, operation |-> operation,
                      result |-> ValidationResult(filePath, operation)], NoError)
    /\ IF ValidationResult(filePath, operation).isValid
       THEN \E stored \in BOOLEAN :
              IF stored /\ Len(patterns) < MaxPatterns
              THEN patterns' = Append(patterns,
                                      PatternRow([pattern |-> PathRelative(Root, filePath),
                                                  context |-> CtxWorkspace,
                                                  timestamp |-> clock,
                                                  metadata |-> MetaOperation(operation),
                                                  confidence |-> 100]))
              ELSE patterns' = patterns
       ELSE patterns' = patterns
    /\ UNCHANGED <<learning_patterns, pattern_usage, pattern_evolution,
                   pattern_validation, clock, updates, calls, service, project>>

\* the ProjectContext
NextProject ==
    \/ \E changes \in ChangeLists : UpdateContext(changes)
    \/ \E filePath \in ValidatedPaths,
          operation \in {"create", "delete", "modify", "read"} :
         ValidateStructure(filePath, operation)

SpecProject == Init /\ [][NextProject]_vars


\* ----------------------------------------------------------------- claims
\* the confidence a stored row has before a step
ConfidenceOf(id) == patterns[RowOf(id)].confidence

\* C1: after every updateConfidence call that succeeds, whatever its options,
\* the confidence of the updated pattern lies between the minConfidence and the
\* maxConfidence in force for the call (0 and 1 unless the options set them).
C1_ConfidenceWithinBounds ==
    [][\A id \in CallerIds, success \in BOOLEAN, options \in OptionInputs :
         (UpdateConfidence(id, success, options) /\ ret'.err = NoError
              /\ ConfidenceOf(id) # NULL)
         => /\ Default(options.minConfidence, 0) <= ConfidenceOf(id)'
            /\ ConfidenceOf(id)' <= Default(options.maxConfidence, 100)]_vars

\* C2: a failure update that leaves the confidence at or below forkThreshold
\* (0.3 unless the options set it) creates exactly one new pattern row with the
\* same text, context and metadata and confidence 0.5, and keeps the original row
\* with its lowered confidence; any other update creates no row.
C2_ForkOnCollapse ==
    [][\A id \in CallerIds, success \in BOOLEAN, options \in OptionInputs :
         (UpdateConfidence(id, success, options) /\ ret'.err = NoError
              /\ ConfidenceOf(id) # NULL)
         => IF ~success /\ ConfidenceOf(id)' <= Default(options.forkThreshold, 30)
            THEN /\ Len(patterns') = Len(patterns) + 1
                 /\ LET fork == patterns'[Len(patterns')]
                        orig == patterns[RowOf(id)]
                    IN /\ fork.pattern = orig.pattern
                       /\ fork.context = orig.context
                       /\ fork.metadata = orig.metadata
                       /\ fork.confidence = 50
            ELSE Len(patterns') = Len(patterns)]_vars

\* C5: updateConfidence on a stored pattern with confidence c stores and returns
\* min(c + successIncrease, maxConfidence) on success and
\* max(c - failureDecrease, minConfidence) on failure, with the defaults 0.1, 0.2,
\* 0.0 and 1.0, and a following find of the pattern's text reports that value.
C5_UpdateConfidenceValue ==
    [][\A id \in CallerIds, success \in BOOLEAN, options \in OptionInputs :
         (UpdateConfidence(id, success, options) /\ ret'.err = NoError
              /\ ConfidenceOf(id) # NULL)
         => LET c == ConfidenceOf(id)
                expected ==
                    IF success
                    THEN Min(c + Default(options.successIncrease, 10),
                             Default(options.maxConfidence, 100))
                    ELSE Max(c - Default(options.failureDecrease, 20),
                             Default(options.minConfidence, 0))
            IN /\ ConfidenceOf(id)' = expected
               /\ ret'.value = expected
               /\ \A found \in FindIn(patterns', patterns[RowOf(id)].pattern) :
                    \E k \in 1..Len(found) :
                        found[k].id = id /\ found[k].confidence = ret'.value]_vars

\* a success update has returned a confidence that the maximum has cut
C5_Witness ==
    /\ ret.op = "updateConfidence"
    /\ ret.err = NoError
    /\ ret.value = 100
    /\ updates >= 2
    /\ \E i \in 1..Len(patterns) : patterns[i].confidence = 100 /\ patterns[i].timestamp = 10
                                      /\ patterns[i].pattern = TextFix

\* C3: recordUsage appends exactly one usage row for the pattern and then applies
\* the confidence update of the outcome: the success rule for 'success', the
\* failure rule for 'failure'.
C3_RecordUsageUpdatesConfidence ==
    [][\A usage \in UsageInputs :
         (RecordUsage(usage) /\ ret'.err = NoError /\ usage.patternId \in PatternIds
              /\ ConfidenceOf(usage.patternId) # NULL)
         => LET c == ConfidenceOf(usage.patternId)
            IN /\ Len(pattern_usage') = Len(pattern_usage) + 1
               /\ pattern_usage'[Len(pattern_usage')].pattern_id = usage.patternId
               /\ usage.outcome = "success"
                    => ConfidenceOf(usage.patternId)' = Min(c + 10, 100)
               /\ usage.outcome = "failure"
                    => ConfidenceOf(usage.patternId)' = Max(c - 20, 0)]_vars

\* C6: recording a usage with outcome 'partial' changes the confidence of the
\* pattern, unless the confidence already sits at a bound.
C6_PartialChangesConfidence ==
    [][\A usage \in UsageInputs :
         (RecordUsage(usage) /\ ret'.err = NoError /\ usage.patternId \in PatternIds
              /\ usage.outcome = "partial"
              /\ ConfidenceOf(usage.patternId) # NULL
              /\ 0 < ConfidenceOf(usage.patternId)
              /\ ConfidenceOf(usage.patternId) < 100)
         => ConfidenceOf(usage.patternId)' # ConfidenceOf(usage.patternId)]_vars

\* C4: processChunk writes all or nothing: when it ends with an error the pattern
\* it stored is not in the store, and when it ends without one the pattern and
\* its usage row are both there.
C4_ChunkAllOrNothing ==
    [][ProcessChunkUsage
         => IF ret'.err # NoError
            THEN \A i \in 1..Len(patterns') : patterns'[i].id # chunk.patternId
            ELSE /\ \E i \in 1..Len(patterns') : patterns'[i].id = chunk.patternId
                 /\ \E u \in 1..Len(pattern_usage') :
                      pattern_usage'[u].pattern_id = chunk.patternId]_vars

\* C7: storePattern calls interleaved with each other and with the other
\* operations return positive ids that no stored pattern has yet, every stored
\* pattern stays in the store under its id, and find returns the new pattern
\* with the fields it was stored with.
C7_ConcurrentStores ==
    [][/\ (StorePattern(PatternFix) /\ ret'.err = NoError)
            => /\ ret'.value > 0
               /\ ret'.value \notin PatternIds
               /\ \A found \in FindIn(patterns', PatternFix.pattern) :
                    \E k \in 1..Len(found) :
                        /\ found[k].id = ret'.value
                        /\ found[k].pattern = PatternFix.pattern
                        /\ found[k].context = PatternFix.context
                        /\ found[k].timestamp = PatternFix.timestamp
                        /\ found[k].metadata = PatternFix.metadata
                        /\ found[k].confidence = PatternFix.confidence
       /\ \A i \in 1..Len(patterns) :
            \E j \in 1..Len(patterns') :
                /\ patterns'[j].id = patterns[i].id
                /\ patterns'[j].pattern = patterns[i].pattern
                /\ patterns'[j].context = patterns[i].context
       /\ \A i, j \in 1..Len(patterns') :
            i # j => patterns'[i].id # patterns'[j].id]_vars

\* two storePattern calls have returned, the second with id 2, and both rows
\* are in the table
C7_Witness ==
    /\ ret.op = "storePattern"
    /\ ret.err = NoError
    /\ ret.value = 2
    /\ Len(patterns) = 2
    /\ patterns[1].context = CtxJest
    /\ patterns[2].context = CtxJest

\* C8: bulkStore, storeLearningPattern and validateAndTrackPattern are atomic:
\* when one of their statements fails, none of the rows of the call is in the
\* store afterwards.
C8_MultiStatementAtomic ==
    [][/\ \A ps \in BulkInputs, failAt \in 1..2 :
            BulkStore(ps, failAt) => patterns' = patterns
       /\ (LearningStoreRow /\ ret'.err # NoError)
            => \A i \in 1..Len(patterns') : patterns'[i].id # learn.patternId
       /\ (ValidateAndTrackEvolve /\ ret'.err # NoError)
            => \A i \in 1..Len(pattern_validation') :
                   pattern_validation'[i].id # track.validationId]_vars

\* C9: every usage, evolution and validation row refers to a stored pattern.
C9_ReferentialIntegrity ==
    /\ \A i \in 1..Len(pattern_usage) : pattern_usage[i].pattern_id \in PatternIds
    /\ \A i \in 1..Len(pattern_evolution) :
         pattern_evolution[i].original_pattern_id \in PatternIds
    /\ \A i \in 1..Len(pattern_validation) :
         pattern_validation[i].pattern_id \in PatternIds
    /\ \A i \in 1..Len(learning_patterns) :
         learning_patterns[i].pattern_id \in PatternIds

\* a usage row and a validation row are stored, and the last call was refused
\* for an id that is not stored
C9_Witness ==
    /\ pattern_usage # <<>>
    /\ pattern_validation # <<>>
    /\ ret.err = ForeignKeyError

\* the fields of a pattern row that no operation may change
Identity(row) ==
    [id |-> row.id, pattern |-> row.pattern, context |-> row.context,
     timestamp |-> row.timestamp, metadata |-> row.metadata]

\* C10: no step removes a row; a pattern row changes in nothing but its
\* confidence, and in that only by a confidence update; usage, evolution and
\* validation rows never change.
C10_HistoryAdditive ==
    [][/\ Len(patterns') >= Len(patterns)
       /\ \A i \in 1..Len(patterns) : Identity(patterns'[i]) = Identity(patterns[i])
       /\ (\E i \in 1..Len(patterns) : patterns'[i].confidence # patterns[i].confidence)
            => \E id \in CallerIds, success \in BOOLEAN :
                   UpdateConfidence(id, success, NoOptions)
       /\ Len(pattern_usage') >= Len(pattern_usage)
       /\ SubSeq(pattern_usage', 1, Len(pattern_usage)) = pattern_usage
       /\ Len(pattern_evolution') >= Len(pattern_evolution)
       /\ SubSeq(pattern_evolution', 1, Len(pattern_evolution)) = pattern_evolution
       /\ Len(pattern_validation') >= Len(pattern_validation)
       /\ SubSeq(pattern_validation', 1, Len(pattern_validation)) = pattern_validation
       /\ Len(learning_patterns') >= Len(learning_patterns)
       /\ SubSeq(learning_patterns', 1, Len(learning_patterns)) = learning_patterns]_vars

\* a confidence update has changed a pattern that has a usage row
C10_Witness ==
    /\ ret.op = "updateConfidence"
    /\ ret.err = NoError
    /\ \E i \in 1..Len(patterns) : patterns[i].confidence # PatternFix.confidence
    /\ pattern_usage # <<>>

\* C11: updateConfidence called with an id that is not stored fails with
\* NotFoundError and leaves every pattern, usage, evolution and validation row
\* unchanged.
C11_UnknownIdNotFound ==
    [][\A id \in CallerIds, success \in BOOLEAN, options \in OptionInputs :
         (UpdateConfidence(id, success, options) /\ id \notin PatternIds
              /\ ret'.err # StorageError)
         => /\ ret'.err = "NotFoundError"
            /\ UNCHANGED tables]_vars

\* what find reports for the metadata a pattern was stored with
ReportedMetadata(m) == IF m = MetaUndefined THEN MetaEmpty ELSE m

\* C12 as stated: for every pattern p, metadata possibly absent, store(p)
\* followed by find(p.text) returns a record whose text, context, timestamp
\* and deserialized metadata equal those of p.
C12_RoundTrip ==
    [][\A p \in FindPatterns :
         (StorePattern(p) /\ ret'.err = NoError)
         => \A found \in FindIn(patterns', p.pattern) :
              \E k \in 1..Len(found) :
                  /\ found[k].id = ret'.value
                  /\ found[k].pattern = p.pattern
                  /\ found[k].context = p.context
                  /\ found[k].timestamp = p.timestamp
                  /\ found[k].metadata = p.metadata]_vars

\* C12 amended: store(p) followed by find(p.text) returns a record whose text,
\* context and timestamp equal those of p and whose metadata equals p's
\* metadata, or is the empty object when p has no metadata.
C12_RoundTripAmended ==
    [][\A p \in FindPatterns :
         (StorePattern(p) /\ ret'.err = NoError)
         => \A found \in FindIn(patterns', p.pattern) :
              \E k \in 1..Len(found) :
                  /\ found[k].id = ret'.value
                  /\ found[k].pattern = p.pattern
                  /\ found[k].context = p.context
                  /\ found[k].timestamp = p.timestamp
                  /\ found[k].metadata = ReportedMetadata(p.metadata)]_vars

\* a pattern without metadata and with a leading blank has been stored next to
\* another pattern, and its store call has returned its id
C12_Witness ==
    /\ ret.op = "storePattern"
    /\ ret.err = NoError
    /\ Len(patterns) = 2
    /\ ret.value = 2
    /\ patterns[2].pattern = TextAdd
    /\ patterns[2].metadata = "NULL"

\* C13: find(s) returns exactly the stored patterns whose text contains s as a
\* substring, most recent first; when no stored text contains s it returns the
\* empty sequence and does not fail. (No store happens between a find and the
\* state that holds its result, so the result is compared with the table.)
C13_FindSubstring ==
    (ret.op = "find" /\ ret.err = NoError)
    => LET s == ret.value.text
           rows == ret.value.rows
       IN /\ {rows[k].id : k \in 1..Len(rows)}
               = {patterns[i].id : i \in {j \in 1..Len(patterns) :
                                             Contains(patterns[j].pattern, s)}}
          /\ \A k, l \in 1..Len(rows) :
               k < l => /\ rows[k].timestamp >= rows[l].timestamp
                        /\ rows[k].id # rows[l].id

\* C14: every pattern row has a defined confidence, and a pattern stored
\* without a confidence gets 0.5.
C14_ConfidenceDefined ==
    [][/\ \A i \in 1..Len(patterns') : patterns'[i].confidence # NULL
       /\ \A p \in PatternInputs :
            (StorePattern(p) /\ ret'.err = NoError /\ p.confidence = NULL)
            => patterns'[Len(patterns')].confidence = 50]_vars

\* C15: a store call whose text is empty, or empty after trimming, is
\* rejected with a validation error before any write: the patterns table is
\* left unchanged.
C15_EmptyTextRejected ==
    [][\A p \in SyncPatterns :
         (SyncStorePattern(p) /\ Trim(p.pattern) = <<>>)
         => /\ patterns' = patterns
            /\ ret'.err = "ValidationError"]_vars

\* C15 amended: storePattern does not look at the text: a call whose text is
\* empty, or empty after trimming, is accepted like any other; unless the
\* storage fails it adds one row whose text is the empty string and returns
\* the id of that row.
C15_EmptyTextStored ==
    [][\A p \in SyncPatterns :
         (SyncStorePattern(p) /\ Trim(p.pattern) = <<>> /\ ret'.err # StorageError)
         => /\ ret'.err = NoError
            /\ Len(patterns') = Len(patterns) + 1
            /\ SubSeq(patterns', 1, Len(patterns)) = patterns
            /\ patterns'[Len(patterns')].id = ret'.value
            /\ patterns'[Len(patterns')].pattern = <<>>
            /\ patterns'[Len(patterns')].context = p.context]_vars

\* a pattern whose text is two blanks has been stored after another pattern,
\* and its row holds the empty text
C15_Witness ==
    /\ ret.op = "storePattern"
    /\ ret.err = NoError
    /\ Len(patterns) = 2
    /\ ret.value = 2
    /\ patterns[2].pattern = <<>>
    /\ patterns[2].timestamp = 20
    /\ patterns[2].metadata = "NULL"
    /\ patterns[1].pattern = TextKB

\* C16: findSimilarPattern never throws: whatever the store holds and
\* whether or not the storage fails, a call ends with a pattern or with none,
\* never with an error.
C16_LookupNeverThrows ==
    ret.op = "findSimilarPattern" => ret.err = NoError

\* C17: findSimilarPattern called with an empty task text returns none,
\* whatever the store holds and whatever the context hint is.
C17_EmptyTextNoMatch ==
    (ret.op = "findSimilarPattern" /\ ret.err = NoError /\ ret.value.pattern = <<>>)
    => ret.value.found = <<>>

C19_ContextPreferred ==
    (/\ ret.op = "findSimilarPattern"
     /\ ret.err = NoError
     /\ ret.value.context # NullText
     /\ ret.value.context # <<>>)
    => /\ (\E k \in 1..Len(ret.value.rows) :
              ret.value.rows[k].context = ret.value.context)
          => /\ ret.value.found # <<>>
             /\ ret.value.found[1].context = ret.value.context
       /\ ret.value.found # <<>>
          => \/ Contains(ret.value.found[1].context, ret.value.context)
             \/ Contains(ret.value.context, ret.value.found[1].context)

\* C20: when the metadata score of some candidate of a lookup is above 0.5,
\* the lookup returns the first such candidate in candidate order, however
\* well the words of any candidate match; a candidate whose score is 0.5 or
\* less is not returned for its metadata; and the metadata score of every
\* candidate lies between 0 and 1. Scores are in tenths.
C20_MetadataFirst ==
    (ret.op = "findSimilarPattern" /\ ret.err = NoError)
    => LET rows == ret.value.rows
           score(k) == CalculateMetadataSimilarity(
                           ret.value.pattern, ParseOrEmpty(rows[k].metadata))
           strong == {k \in 1..Len(rows) : score(k) > 5}
       IN /\ \A k \in 1..Len(rows) : score(k) >= 0 /\ score(k) <= 10
          /\ \A k \in strong :
               (\A l \in strong : k <= l)
               => /\ ret.value.found # <<>>
                  /\ ret.value.found[1].id = rows[k].id
          /\ (strong = {} /\ ret.value.found # <<>>)
             => ret.value.found[1].id = rows[1].id

\* a lookup has returned the second candidate, whose metadata score is 0.6,
\* although the first candidate has the very words of the task text
C20_Witness ==
    /\ ret.op = "findSimilarPattern"
    /\ ret.err = NoError
    /\ ret.value.pattern = TextKB
    /\ Len(ret.value.rows) = 2
    /\ ret.value.rows[1].pattern = TextKB
    /\ CalculateMetadataSimilarity(TextKB, ParseOrEmpty(ret.value.rows[1].metadata)) = 0
    /\ CalculateMetadataSimilarity(TextKB, ParseOrEmpty(ret.value.rows[2].metadata)) = 6
    /\ ret.value.found # <<>>
    /\ ret.value.found[1].id = ret.value.rows[2].id

\* the words of a text, lowercased
Tokens(text) == SplitWs(ToLowerCase(text))

\* the number of words of the task text that occur among the words of the
\* candidate text
SharedTokens(task, text) ==
    Cardinality({i \in 1..Len(Tokens(task)) :
                   \E j \in 1..Len(Tokens(text)) : Tokens(text)[j] = Tokens(task)[i]})

\* the number of the two bonuses a task text and a candidate text earn: equal
\* first words, equal numbers of words
Bonuses(task, text) ==
    (IF Tokens(task)[1] = Tokens(text)[1] THEN 1 ELSE 0)
    + (IF Len(Tokens(task)) = Len(Tokens(text)) THEN 1 ELSE 0)

\* the larger of the two numbers of words
MaxTokens(task, text) == Max(Len(Tokens(task)), Len(Tokens(text)))

\* a successful lookup none of whose candidates has a metadata score above 0.5
NoStrongCandidate ==
    /\ ret.op = "findSimilarPattern"
    /\ ret.err = NoError
    /\ ret.value.rows # <<>>
    /\ \A k \in 1..Len(ret.value.rows) :
         CalculateMetadataSimilarity(
             ret.value.pattern, ParseOrEmpty(ret.value.rows[k].metadata)) <= 5

\* C21: when no candidate has a metadata score above 0.5, the lookup returns
\* the top candidate if and only if shared / max + 0.5 * bonuses >= 0.3, where
\* shared is the number of shared words, max the larger number of words and
\* bonuses counts equal first words and equal numbers of words.
C21_WordOverlap ==
    NoStrongCandidate
    => LET task == ret.value.pattern
           top == ret.value.rows[1]
       IN /\ ret.value.found # <<>>
             <=> 10 * SharedTokens(task, top.pattern)
                   + 5 * Bonuses(task, top.pattern) * MaxTokens(task, top.pattern)
                 >= 3 * MaxTokens(task, top.pattern)
          /\ ret.value.found # <<>> => ret.value.found[1].id = top.id

\* C21 amended: when no candidate has a metadata score above 0.5, the lookup
\* returns the top candidate if and only if
\* (shared + 0.5 * bonuses) / max >= 0.3: the bonuses are divided by the
\* larger number of words like the shared words.
C21_WordOverlapAmended ==
    NoStrongCandidate
    => LET task == ret.value.pattern
           top == ret.value.rows[1]
       IN /\ ret.value.found # <<>>
             <=> 10 * SharedTokens(task, top.pattern) + 5 * Bonuses(task, top.pattern)
                 >= 3 * MaxTokens(task, top.pattern)
          /\ ret.value.found # <<>> => ret.value.found[1].id = top.id

\* a lookup for a task text of six words has returned none although its top
\* candidate has the same first word; another lookup could return a candidate
\* of two words for a task text of two words
C21_Witness ==
    /\ NoStrongCandidate
    /\ ret.value.pattern = TextSix
    /\ ret.value.rows[1].pattern = TextKC
    /\ ret.value.found = <<>>

\* C22: among the candidates of a lookup that match the task text equally
\* well (the same text and, when a hint is given, the same context as the
\* returned pattern), the returned pattern has the highest confidence, and
\* among those of that confidence the most recent timestamp.
C22_TieBreak ==
    (ret.op = "findSimilarPattern" /\ ret.err = NoError /\ ret.value.found # <<>>)
    => LET best == ret.value.found[1]
           rows == ret.value.rows
       IN \A k \in 1..Len(rows) :
            (/\ rows[k].pattern = best.pattern
             /\ ret.value.context = NullText \/ rows[k].context = best.context
             /\ rows[k].confidence # NULL
             /\ best.confidence # NULL)
            => /\ rows[k].confidence <= best.confidence
               /\ rows[k].confidence = best.confidence
                  => rows[k].timestamp <= best.timestamp

\* C23: a lookup yields only a pattern whose confidence is above the floor
\* (minConfidence, 0 by default): a pattern whose confidence failure updates
\* have driven down to the floor is no longer returned.
C23_HitAboveFloor ==
    (/\ ret.op = "findSimilarPattern"
     /\ ret.err = NoError
     /\ ret.value.found # <<>>)
    => ret.value.found[1].confidence > 0

\* the positions of the checkpoints of a type in a chunk
CheckpointsOf(taskChunk, type) ==
    {k \in 1..Len(taskChunk.checkpoints) : taskChunk.checkpoints[k].type = type}

\* C24: every chunk chunkMessages returns has exactly one start checkpoint,
\* its first checkpoint, and exactly one completion checkpoint, its last one;
\* a completion checkpoint written at finalization has undefined success.
C24_StartAndCompletion ==
    ret.op = "chunkMessages"
    => \A i \in 1..Len(ret.value.chunks) :
         LET taskChunk == ret.value.chunks[i]
             last == taskChunk.checkpoints[Len(taskChunk.checkpoints)]
         IN /\ CheckpointsOf(taskChunk, "start") = {1}
            /\ CheckpointsOf(taskChunk, "completion") = {Len(taskChunk.checkpoints)}
            /\ last.message = "Task ended without explicit completion"
               => last.success = "undefined"

\* a transcript without a completion message has given one chunk with a
\* tool_usage checkpoint, closed by the completion written at finalization
C24_Witness ==
    /\ ret.op = "chunkMessages"
    /\ Len(ret.value.chunks) = 1
    /\ Len(ret.value.chunks[1].checkpoints) = 3
    /\ ret.value.chunks[1].checkpoints[2].type = "tool_usage"
    /\ ret.value.chunks[1].checkpoints[3].type = "completion"
    /\ ret.value.chunks[1].checkpoints[3].success = "undefined"

StartToolsEnd(messages) ==
    /\ Len(messages) >= 3
    /\ IsTaskStart(messages[1])
    /\ \A k \in 2..(Len(messages) - 1) :
         messages[k].say = "tool" /\ ParsesAsJson(messages[k].text)
    /\ IsTaskEnd(messages[Len(messages)])
    /\ ~IsTaskStart(messages[Len(messages)])
    /\ ~IncludesFail(messages[Len(messages)].text)
    /\ messages[Len(messages)].ts - messages[1].ts >= 100

RunChunks ==
    IF chunk.pc # "idle" THEN chunk.chunks
    ELSE IF ret.op = "extractPatterns" THEN ret.value.chunks
    ELSE <<>>

\* C28: for every valid chunk, in order, extractPatterns first stores one
\* pattern and then records one usage whose pattern id is the id of that
\* pattern and whose outcome and feedback are those derived for the chunk; a
\* usage is never recorded before its pattern is stored, and after a run over
\* n valid chunks the store holds n patterns and n usages.
C28_StoreThenUsage ==
    /\ Len(pattern_usage) <= Len(patterns)
    /\ Len(patterns) <= Len(pattern_usage) + 1
    /\ Len(patterns) <= Len(RunChunks)
    /\ chunk.pc = "stored"
       => /\ Len(patterns) = Len(pattern_usage) + 1
          /\ chunk.patternId = patterns[Len(patterns)].id
    /\ chunk.pc = "chunked" => Len(patterns) = Len(pattern_usage)
    /\ \A i \in 1..Len(pattern_usage) :
         /\ pattern_usage[i].pattern_id = patterns[i].id
         /\ pattern_usage[i].outcome = LearningPatternOf(RunChunks[i]).outcome
         /\ pattern_usage[i].feedback = LearningPatternOf(RunChunks[i]).feedback
         /\ patterns[i].pattern = DeriveIntent(RunChunks[i])
    /\ (ret.op = "extractPatterns" /\ ret.err = NoError)
       => /\ Len(patterns) = Len(ret.value.chunks)
          /\ Len(pattern_usage) = Len(ret.value.chunks)

\* a run over two valid chunks, the first successful and the second failed,
\* has ended with two patterns and two usages
C28_Witness ==
    /\ ret.op = "extractPatterns"
    /\ ret.err = NoError
    /\ Len(ret.value.chunks) = 2
    /\ Len(patterns) = 2
    /\ Len(pattern_usage) = 2
    /\ pattern_usage[1].outcome = "success"
    /\ pattern_usage[2].pattern_id = 2

\* C29: every pattern the learning pipeline produced is stored as a patterns
\* row with a learning_patterns row linked to it under the project fingerprint,
\* so after extractPatterns has processed its chunks findPatternsByFingerprint
\* of that fingerprint returns every one of those patterns.
C29_FoundByFingerprint ==
    (ret.op = "findPatternsByFingerprint" /\ ret.value.fingerprint = Fingerprint)
    => \A i \in 1..Len(patterns) :
         /\ \E j \in 1..Len(learning_patterns) :
              /\ learning_patterns[j].pattern_id = patterns[i].id
              /\ learning_patterns[j].project_fingerprint = Fingerprint
         /\ \E k \in 1..Len(ret.value.rows) : ret.value.rows[k].id = patterns[i].id

StartPositions(messages) ==
    {i \in 1..Len(messages) : messages[i].text # TxEmpty /\ IsTaskStart(messages[i])}

\* the messages with a text from position first up to the next chunk-start
\* message or the end of the transcript
SegmentFrom(messages, first) ==
    LET later == {i \in StartPositions(messages) : i > first}
        last == IF later = {} THEN Len(messages)
                ELSE (CHOOSE i \in later : \A l \in later : i <= l) - 1
    IN SelectSeq(SubSeq(messages, first, last), LAMBDA m : m.text # TxEmpty)

\* the k-th smallest element of a set of positions
RECURSIVE KthPosition(_, _)
KthPosition(positions, k) ==
    LET least == CHOOSE i \in positions : \A l \in positions : i <= l
    IN IF k = 1 THEN least ELSE KthPosition(positions \ {least}, k - 1)

IsPrefix(a, b) == Len(a) <= Len(b) /\ a = SubSeq(b, 1, Len(a))

\* C31: chunkMessages has at most one chunk open: it builds one chunk per
\* chunk-start message, in transcript order; the messages of a chunk are
\* consecutive messages of the transcript that begin at its start message and
\* end before the next start message, so no message is in two chunks, the first
\* message of a chunk is a start message and no other one is, and messages
\* before the first start message are in no chunk; a chunk that a start message
\* closes is finalized (it ends with a completion checkpoint) and emitted.
C31_OneOpenChunk ==
    ret.op = "chunkMessages"
    => LET messages == ret.value.messages
           built == CandidateChunks(messages)
           starts == StartPositions(messages)
       IN /\ Len(built) = Cardinality(starts)
          /\ \A j \in 1..Len(built) :
               /\ built[j].messages # <<>>
               /\ IsPrefix(built[j].messages,
                           SegmentFrom(messages, KthPosition(starts, j)))
               /\ IsTaskStart(built[j].messages[1])
               /\ \A k \in 2..Len(built[j].messages) : ~IsTaskStart(built[j].messages[k])
               /\ built[j].checkpoints[Len(built[j].checkpoints)].type = "completion"
          /\ \A j \in 1..Len(ret.value.chunks) :
               \E i \in j..Len(built) : ret.value.chunks[j] = built[i]

\* a transcript with a message before its first start message and a second
\* start message that arrives while the first chunk is open
C31_Witness ==
    /\ ret.op = "chunkMessages"
    /\ Len(ret.value.messages) = 3
    /\ ret.value.messages[1].text = TxPlain
    /\ IsTaskStart(ret.value.messages[2])
    /\ IsTaskStart(ret.value.messages[3])
    /\ Len(CandidateChunks(ret.value.messages)) = 2

\* C32: in every chunk each error message leaves an error checkpoint with
\* success false, and a tool_usage checkpoint has success true exactly when no
\* error checkpoint lies after it and before the next tool_usage checkpoint of
\* the chunk; the start checkpoint is left as it was.
C32_ErrorFlipsLastTool ==
    \A j \in 1..Len(RunChunks) :
      LET cps == RunChunks[j].checkpoints
          msgs == RunChunks[j].messages
          tools == CheckpointsOf(RunChunks[j], "tool_usage")
          errors == CheckpointsOf(RunChunks[j], "error")
      IN /\ Cardinality(errors) = Cardinality({i \in 1..Len(msgs) : msgs[i].say = "error"})
         /\ \A e \in errors : cps[e].success = "false"
         /\ \A k \in tools :
              (cps[k].success = "true")
              <=> ~\E e \in errors : /\ e > k
                                     /\ ~\E l \in tools : k < l /\ l < e
         /\ \A k \in tools : cps[k].success \in {"true", "false"}
         /\ cps[1].type = "start" /\ cps[1].success = "undefined"

\* a chunk with two tool_usage checkpoints and then an error: only the second
\* tool_usage checkpoint is marked unsuccessful
C32_Witness ==
    /\ Len(RunChunks) = 1
    /\ Len(RunChunks[1].checkpoints) = 5
    /\ RunChunks[1].checkpoints[2].type = "tool_usage"
    /\ RunChunks[1].checkpoints[2].success = "true"
    /\ RunChunks[1].checkpoints[3].type = "tool_usage"
    /\ RunChunks[1].checkpoints[3].success = "false"
    /\ RunChunks[1].checkpoints[4].type = "error"

\* a text message with a text that matches a chunk-end pattern
EndMessage(msg) == msg.say = "text" /\ msg.text # TxEmpty /\ MatchesTaskEnd(msg.text)

\* the position of the last chunk-start message before position i, 0 if none
LastStartBefore(messages, i) ==
    LET before == {s \in StartPositions(messages) : s < i}
    IN IF before = {} THEN 0 ELSE CHOOSE s \in before : \A l \in before : l <= s

\* a chunk is open when the message at position i arrives: a start message
\* precedes it and no chunk-end message lies between the last one and i
OpenAt(messages, i) ==
    /\ LastStartBefore(messages, i) # 0
    /\ \A p \in (LastStartBefore(messages, i) + 1)..(i - 1) : ~EndMessage(messages[p])

\* the chunk open at position i is closed by the message at i: its messages
\* are those from its start message up to i, and its last checkpoint is the
\* completion checkpoint of the message, successful iff the text has no 'fail'
ClosedBy(messages, i) ==
    LET s == LastStartBefore(messages, i)
        built == CandidateChunks(messages)
        closed == built[Cardinality({q \in StartPositions(messages) : q <= s})]
        last == closed.checkpoints[Len(closed.checkpoints)]
    IN /\ closed.messages = SelectSeq(SubSeq(messages, s, i), LAMBDA m : m.text # TxEmpty)
       /\ last.type = "completion"
       /\ last.message = messages[i].text
       /\ last.ts = messages[i].ts
       /\ last.success = (IF IncludesFail(messages[i].text) THEN "false" ELSE "true")
       /\ CheckpointsOf(closed, "completion") = {Len(closed.checkpoints)}

\* C33 as stated: every text message that matches a chunk-end pattern while a
\* chunk is open adds a completion checkpoint, successful iff its text has no
\* 'fail', and closes the chunk: the chunk takes no later message.
C33_EndCloses ==
    ret.op = "chunkMessages"
    => \A i \in 1..Len(ret.value.messages) :
         (EndMessage(ret.value.messages[i]) /\ OpenAt(ret.value.messages, i))
         => ClosedBy(ret.value.messages, i)

\* C33 amended: every text message that matches a chunk-end pattern and no
\* chunk-start pattern while a chunk is open adds a completion checkpoint,
\* successful iff its text has no 'fail', and closes the chunk: the chunk takes
\* no later message, and the messages up to the next start message are in no
\* chunk and leave no checkpoint.
C33_EndClosesAmended ==
    ret.op = "chunkMessages"
    => \A i \in 1..Len(ret.value.messages) :
         (/\ EndMessage(ret.value.messages[i])
          /\ ~MatchesTaskStart(ret.value.messages[i].text)
          /\ OpenAt(ret.value.messages, i))
         => ClosedBy(ret.value.messages, i)

\* a chunk is closed by 'Build failed with error' and a message follows
C33_Witness ==
    /\ ret.op = "chunkMessages"
    /\ Len(ret.value.messages) = 3
    /\ IsTaskStart(ret.value.messages[1])
    /\ ret.value.messages[2].text = TxEndFail
    /\ ret.value.messages[3].text = TxPlain
    /\ Len(CandidateChunks(ret.value.messages)) = 1
    /\ Len(CandidateChunks(ret.value.messages)[1].messages) = 2
    /\ CandidateChunks(ret.value.messages)[1].checkpoints[2].success = "false"

\* C34: when extractPatterns rejects, it rejects with the error of the store,
\* at a chunk k that is not past the last one; the chunks before k have their
\* pattern and their usage stored, in the order of the chunks, at most the
\* pattern of chunk k itself is stored besides, and nothing of a later chunk.
C34_FailureStopsRun ==
    (ret.op = "extractPatterns" /\ ret.err # NoError)
    => LET chunks == ret.value.chunks
           before == Len(pattern_usage)
       IN /\ ret.err = StorageError
          /\ chunk.pc = "idle"
          /\ before < Len(chunks)
          /\ Len(patterns) \in {before, before + 1}
          /\ \A i \in 1..Len(patterns) :
               /\ patterns[i].pattern = DeriveIntent(chunks[i])
               /\ patterns[i].timestamp = chunks[i].startTs
          /\ \A i \in 1..before :
               /\ pattern_usage[i].pattern_id = patterns[i].id
               /\ pattern_usage[i].outcome = DetermineOutcome(chunks[i])

\* the run fails at the second of two chunks, the first one stays stored
C34_Witness ==
    /\ ret.op = "extractPatterns"
    /\ ret.err = StorageError
    /\ Len(ret.value.chunks) = 2
    /\ Len(patterns) = 1
    /\ Len(pattern_usage) = 1
    /\ pattern_usage[1].pattern_id = patterns[1].id

\* the calls of a taskId that are between their guard and their finally block
InFlightCalls(taskId) ==
    {c \in 1..Len(taskCalls) :
       taskCalls[c].taskId = taskId /\ taskCalls[c].pc \in {"reading", "extracting"}}

\* C35: whatever the interleaving of processTaskLogs calls, at most one call per
\* taskId is in flight and processingTasks holds exactly the taskIds with a call
\* in flight; a call made while its taskId is in processingTasks returns at
\* once, reads nothing, extracts nothing and leaves the set alone, and a call
\* for a taskId that is not in the set starts whatever other tasks are doing.
C35_OnePerTask ==
    /\ [](\A taskId \in TaskIds :
            /\ Cardinality(InFlightCalls(taskId)) <= 1
            /\ (taskId \in processingTasks) <=> (InFlightCalls(taskId) # {}))
    /\ [][Len(taskCalls') = Len(taskCalls) + 1
          => LET made == taskCalls'[Len(taskCalls')]
             IN IF made.taskId \in processingTasks
                THEN /\ made.pc = "skipped"
                     /\ processingTasks' = processingTasks
                     /\ SubSeq(taskCalls', 1, Len(taskCalls)) = taskCalls
                ELSE /\ made.pc = "reading"
                     /\ processingTasks' = processingTasks \cup {made.taskId}]_vars

\* a call for task-1 is skipped while the first call for task-1 is extracting
\* and a call for task-2 has started
C35_Witness ==
    /\ Len(taskCalls) = 3
    /\ taskCalls[1] = TaskCall("task-1", "extracting")
    /\ \E c \in 2..3 : taskCalls[c] = TaskCall("task-1", "skipped")
    /\ \E c \in 2..3 : taskCalls[c] = TaskCall("task-2", "reading")
    /\ processingTasks = {"task-1", "task-2"}

\* C36: every processTaskLogs call that starts processing ends, and no call
\* throws; when a call ends, whether reading, parsing and extraction succeeded
\* or failed, its taskId is not in processingTasks; once no call is in flight
\* the set is empty, and a call then made for a taskId processed before starts
\* processing again.
C36_EndsAndReleases ==
    /\ \A call \in 1..MaxCalls :
         (call <= Len(taskCalls) /\ taskCalls[call].pc \in {"reading", "extracting"})
         ~> (call <= Len(taskCalls) /\ taskCalls[call].pc = "ended")
    /\ [](ret.op = "processTaskLogs" => ret.err = NoError)
    /\ []((\A c \in 1..Len(taskCalls) : taskCalls[c].pc \in {"skipped", "ended"})
          => processingTasks = {})
    /\ [][\A c \in 1..Len(taskCalls) :
            (taskCalls[c].pc # "ended" /\ taskCalls'[c].pc = "ended")
            => /\ taskCalls[c].taskId \notin processingTasks'
               /\ ret'.op = "processTaskLogs" /\ ret'.value.call = c]_vars
    /\ [][(/\ Len(taskCalls') = Len(taskCalls) + 1
           /\ \E c \in 1..Len(taskCalls) :
                /\ taskCalls[c].pc = "ended"
                /\ taskCalls[c].taskId = taskCalls'[Len(taskCalls')].taskId
           /\ taskCalls'[Len(taskCalls')].taskId \notin processingTasks)
          => taskCalls'[Len(taskCalls')].pc = "reading"]_vars

\* a call for task-1 failed, the next call for task-1 processed the log again
\* and ended, and the set is empty
C36_Witness ==
    /\ Len(taskCalls) = 2
    /\ taskCalls[1] = TaskCall("task-1", "ended")
    /\ taskCalls[2] = TaskCall("task-1", "ended")
    /\ processingTasks = {}
    /\ ret.op = "processTaskLogs" /\ ret.value.call = 2
    /\ ret.value.outcome = "extracted"

\* the messages of the tool_usage checkpoints behind the first error
\* checkpoint of a chunk, in checkpoint order
RECURSIVE RecoverySteps(_, _)
RecoverySteps(checkpoints, hadError) ==
    IF checkpoints = <<>> THEN <<>>
    ELSE IF Head(checkpoints).type = "error"
    THEN RecoverySteps(Tail(checkpoints), TRUE)
    ELSE IF hadError /\ Head(checkpoints).type = "tool_usage"
    THEN <<Head(checkpoints).message>> \o RecoverySteps(Tail(checkpoints), hadError)
    ELSE RecoverySteps(Tail(checkpoints), hadError)

\* C37: the adjustments recorded with the usage of a chunk are the messages of
\* the tool_usage checkpoints after the first error checkpoint of the chunk, in
\* checkpoint order: none when the chunk has no error checkpoint or no
\* tool_usage checkpoint after it.
C37_Adjustments ==
    \A i \in 1..Len(pattern_usage) :
      LET cps == RunChunks[i].checkpoints
          errors == CheckpointsOf(RunChunks[i], "error")
          recorded == pattern_usage[i].adjustments
      IN /\ recorded = JsonArray(RecoverySteps(cps, FALSE))
         /\ Len(recorded) - 2
              = Cardinality({k \in CheckpointsOf(RunChunks[i], "tool_usage") :
                               \E e \in errors : e < k})
         /\ (errors = {} => recorded = JsonArray(<<>>))

\* a chunk with a tool use, an error and a tool use after it: one adjustment
C37_Witness ==
    /\ Len(pattern_usage) = 1
    /\ Len(RunChunks[1].checkpoints) = 5
    /\ RunChunks[1].checkpoints[2].type = "tool_usage"
    /\ RunChunks[1].checkpoints[3].type = "error"
    /\ RunChunks[1].checkpoints[4].type = "tool_usage"
    /\ pattern_usage[1].adjustments = JsonArray(<<TxTool>>)

\* the usage rows of a pattern
UsageRowsOf(id) == {i \in 1..Len(pattern_usage) : pattern_usage[i].pattern_id = id}

\* the adjustments of the first n usage rows that belong to pattern id, one
\* after the other
RECURSIVE AdjustmentsUpTo(_, _)
AdjustmentsUpTo(id, n) ==
    IF n = 0 THEN <<>>
    ELSE AdjustmentsUpTo(id, n - 1)
         \o (IF n \in UsageRowsOf(id) /\ pattern_usage[n].adjustments # NullText
             THEN SubSeq(pattern_usage[n].adjustments, 2,
                         Len(pattern_usage[n].adjustments) - 1)
             ELSE <<>>)

\* C38: after any sequence of recordUsage calls getPatternHistory(id) reports
\* as successes the number of usage rows of pattern id with outcome success and
\* as failures the number with outcome failure; partial usages and the usages
\* of other patterns count in neither; adaptations is the adjustments of the
\* usage rows of the pattern, one after the other.
C38_History ==
    ret.op = "getPatternHistory"
    => LET id == ret.value.patternId
           history == ret.value.history
       IN /\ history.successes
               = Cardinality({i \in UsageRowsOf(id) : pattern_usage[i].outcome = "success"})
          /\ history.failures
               = Cardinality({i \in UsageRowsOf(id) : pattern_usage[i].outcome = "failure"})
          /\ history.successes + history.failures
               = Cardinality(UsageRowsOf(id))
                   - Cardinality({i \in UsageRowsOf(id) :
                                    pattern_usage[i].outcome = "partial"})
          /\ history.adaptations = AdjustmentsUpTo(id, Len(pattern_usage))

\* the history of pattern 1 after a success with adjustments, a partial usage
\* and a failure of pattern 2
C38_Witness ==
    /\ ret.op = "getPatternHistory"
    /\ ret.value.patternId = 1
    /\ Len(pattern_usage) = 3
    /\ \E i, j, k \in 1..3 :
         /\ pattern_usage[i].pattern_id = 1 /\ pattern_usage[i].outcome = "success"
         /\ pattern_usage[i].adjustments = JsonArray(<<"retry", "patch">>)
         /\ pattern_usage[j].pattern_id = 1 /\ pattern_usage[j].outcome = "partial"
         /\ pattern_usage[k].pattern_id = 2 /\ pattern_usage[k].outcome = "failure"
    /\ ret.value.history.successes = 1
    /\ ret.value.history.failures = 0

\* the type of the last change of a path in the history, "none" without one
LastChange(relativePath) ==
    LET changes == {i \in 1..Len(fileChangesHistory) :
                      fileChangesHistory[i].filePath = relativePath}
    IN IF changes = {} THEN "none"
       ELSE fileChangesHistory[CHOOSE i \in changes : \A j \in changes : j <= i].type

\* C39: after any updateContext calls validateStructure answers, for a path
\* inside the root that no rule forbids, by the last change of the path:
\* create is valid iff the path has no change or its last change is deleted,
\* modify and delete are valid iff its last change is created, modified or read.
C39_TrackedState ==
    (ret.op = "validateStructure" /\ ret.err = NoError)
    => LET relativePath == PathRelative(Root, ret.value.filePath)
           tracked == LastChange(relativePath) \in {"created", "modified", "read"}
       IN (relativePath \in ChangedPaths)
          => /\ ret.value.operation = "create" => (ret.value.result.isValid <=> ~tracked)
             /\ ret.value.operation \in {"modify", "delete"}
                  => (ret.value.result.isValid <=> tracked)

\* the texts of the tool messages of a chunk that JSON.parse rejects
UnparsedTools(taskChunk) ==
    {taskChunk.messages[k].text : k \in {j \in 1..Len(taskChunk.messages) :
        /\ taskChunk.messages[j].say = "tool"
        /\ ~ParsesAsJson(taskChunk.messages[j].text)}}

\* C40: a tool message whose payload cannot be parsed does not abort its chunk:
\* after a run that ended normally every chunk has its stored pattern, and for
\* every unparsable tool message of the chunk the tool usage of the chunk has a
\* record with tool 'unknown' that carries the raw text.
C40_UnknownTool ==
    (ret.op = "extractPatterns" /\ ret.err = NoError)
    => \A i \in 1..Len(ret.value.chunks) :
         /\ i <= Len(patterns)
         /\ patterns[i].pattern = DeriveIntent(ret.value.chunks[i])
         /\ \A raw \in UnparsedTools(ret.value.chunks[i]) :
              \E k \in 1..Len(ExtractToolUsage(ret.value.chunks[i])) :
                LET usage == ExtractToolUsage(ret.value.chunks[i])[k]
                IN /\ usage.tool = "unknown"
                   /\ "raw" \in DOMAIN usage
                   /\ usage.raw = raw

====
